---------------------------- MODULE Spec2Model ----------------------------
(***************************************************************************)
(* Model of the project-management agent: the SQLite-backed SessionManager *)
(* of src/main.py and the entity operations of ProjectManagementAgent in   *)
(* src/project_management_agent/agent.py.                                  *)
(*                                                                         *)
(* Python strings are modelled as sequences of one-character strings, so   *)
(* that lower(), substring containment, strptime and the JSON text written *)
(* to the sessions table are computed, not assumed.                        *)
(***************************************************************************)
EXTENDS Integers, Sequences, FiniteSets, TLC

VARIABLES
    store,      \* rows of the sessions table, in insertion order
    clock,      \* CURRENT_TIMESTAMP of the database, in seconds
    agent,      \* the ProjectManagementAgent of the current (or last) run: state, session_id,
                \* conversation_history (the roles of its messages), live
    peer,       \* a second ProjectManagementAgent, of another browser session of streamlit_app.py
    call,       \* the last call made: its name and arguments
    ret,        \* what that call returned
    written     \* the number of calls of update_session_state that call made

vars == <<store, clock, agent, peer, call, ret, written>>

-----------------------------------------------------------------------------
(* Bounds of the model.                                                    *)

MaxProjects == 2
MaxTasks == 2
MaxMembers == 2
MaxClock == 0
\* seconds of database time while the sessions table alone is exercised
MaxStoreClock == 2
\* projects, tasks and team members together
MaxEntities == 3

-----------------------------------------------------------------------------
(* Strings.                                                                *)

Digits == <<"0","1","2","3","4","5","6","7","8","9">>

\* Python's None
None == <<"<None>">>

\* the lower-case letter of every upper-case ASCII letter
ToLower == [A |-> "a", B |-> "b", C |-> "c", D |-> "d", E |-> "e", F |-> "f", G |-> "g",
            H |-> "h", I |-> "i", J |-> "j", K |-> "k", L |-> "l", M |-> "m", N |-> "n",
            O |-> "o", P |-> "p", Q |-> "q", R |-> "r", S |-> "s", T |-> "t", U |-> "u",
            V |-> "v", W |-> "w", X |-> "x", Y |-> "y", Z |-> "z"]

\* str.lower() on one ASCII character
LowerChar(c) == IF c \in DOMAIN ToLower THEN ToLower[c] ELSE c

\* str.lower()
Lower(s) == [i \in 1..Len(s) |-> LowerChar(s[i])]

\* s.startswith(p, i - 1) for a 1-based position i
StartsAt(s, p, i) ==
    /\ i + Len(p) - 1 <= Len(s)
    /\ \A k \in 1..Len(p) : s[i + k - 1] = p[k]

\* the Python expression `q in s` on strings
Contains(q, s) == \E i \in 1..(Len(s) + 1) : StartsAt(s, q, i)

\* q.lower() in s.lower()
NameMatches(q, s) == Contains(Lower(q), Lower(s))

\* str.replace(a, b) for one-character a and b
ReplaceChar(s, a, b) == [i \in 1..Len(s) |-> IF s[i] = a THEN b ELSE s[i]]

RECURSIVE SeqSum(_)
SeqSum(ns) == IF ns = <<>> THEN 0 ELSE Head(ns) + SeqSum(Tail(ns))

RECURSIVE Flatten(_)
\* concatenation of a sequence of sequences
Flatten(ss) == IF ss = <<>> THEN <<>> ELSE Head(ss) \o Flatten(Tail(ss))

-----------------------------------------------------------------------------
(* datetime.strptime(s, "%Y-%m-%d")                                        *)

IsDigit(c) == \E i \in 1..Len(Digits) : Digits[i] = c
DigitVal(c) == (CHOOSE i \in 1..Len(Digits) : Digits[i] = c) - 1

RECURSIVE IntOf(_)
\* int(s) for a string of digits
IntOf(s) == IF s = <<>> THEN 0 ELSE 10 * IntOf(SubSeq(s, 1, Len(s) - 1)) + DigitVal(s[Len(s)])

\* %m: 1[0-2]|0[1-9]|[1-9]
MonthToken(t) ==
    \/ Len(t) = 2 /\ t[1] = "1" /\ t[2] \in {"0", "1", "2"}
    \/ Len(t) = 2 /\ t[1] = "0" /\ IsDigit(t[2]) /\ t[2] # "0"
    \/ Len(t) = 1 /\ IsDigit(t[1]) /\ t[1] # "0"

\* %d: 3[0-1]|[1-2]\d|0[1-9]|[1-9]| [1-9]
DayToken(t) ==
    \/ Len(t) = 2 /\ t[1] = "3" /\ t[2] \in {"0", "1"}
    \/ Len(t) = 2 /\ t[1] \in {"1", "2"} /\ IsDigit(t[2])
    \/ Len(t) = 2 /\ t[1] = "0" /\ IsDigit(t[2]) /\ t[2] # "0"
    \/ Len(t) = 1 /\ IsDigit(t[1]) /\ t[1] # "0"
    \/ Len(t) = 2 /\ t[1] = " " /\ IsDigit(t[2]) /\ t[2] # "0"

IsLeap(y) == (y % 4 = 0 /\ y % 100 # 0) \/ y % 400 = 0

DaysInMonth(y, m) ==
    IF m = 2 THEN (IF IsLeap(y) THEN 29 ELSE 28)
    ELSE IF m \in {4, 6, 9, 11} THEN 30 ELSE 31

\* the text after a leading space of " 5" is the number
NumberOf(t) == IntOf(SelectSeq(t, IsDigit))

\* TRUE when strptime returns, FALSE when it raises ValueError
StrptimeYmd(s) ==
    /\ Len(s) >= 8
    /\ \A i \in 1..4 : IsDigit(s[i])
    /\ s[5] = "-"
    /\ \E mlen \in {1, 2} :
        /\ 6 + mlen <= Len(s)
        /\ s[6 + mlen] = "-"
        /\ MonthToken(SubSeq(s, 6, 5 + mlen))
        /\ DayToken(SubSeq(s, 7 + mlen, Len(s)))
        /\ LET y == IntOf(SubSeq(s, 1, 4))
               m == NumberOf(SubSeq(s, 6, 5 + mlen))
               d == NumberOf(SubSeq(s, 7 + mlen, Len(s)))
           IN  y >= 1 /\ d <= DaysInMonth(y, m)

-----------------------------------------------------------------------------
(* json.dumps / json.loads of the state dictionary.  The JSON text is a   *)
(* sequence of tokens; every token is a sequence of characters: a         *)
(* punctuation mark, or a string literal in double quotes with " and \    *)
(* escaped.                                                                *)

LBrace == <<"{">>
RBrace == <<"}">>
LBracket == <<"[">>
RBracket == <<"]">>
Comma == <<",">>
Colon == <<":">>
DQuote == "\""
Backslash == "\\"

\* the characters of every dictionary key the program writes
KeyChars ==
    [ user_name |-> <<"u","s","e","r","_","n","a","m","e">>,
      projects |-> <<"p","r","o","j","e","c","t","s">>,
      team_members |-> <<"t","e","a","m","_","m","e","m","b","e","r","s">>,
      name |-> <<"n","a","m","e">>,
      description |-> <<"d","e","s","c","r","i","p","t","i","o","n">>,
      due_date |-> <<"d","u","e","_","d","a","t","e">>,
      tasks |-> <<"t","a","s","k","s">>,
      created_at |-> <<"c","r","e","a","t","e","d","_","a","t">>,
      assigned_to |-> <<"a","s","s","i","g","n","e","d","_","t","o">>,
      priority |-> <<"p","r","i","o","r","i","t","y">>,
      status |-> <<"s","t","a","t","u","s">>,
      role |-> <<"r","o","l","e">>,
      email |-> <<"e","m","a","i","l">> ]

\* an encoder that escapes nothing
EscapeNothing(s) == s

\* json.encoder: " and \ are escaped with a backslash
Escape(s) ==
    IF \A i \in 1..Len(s) : s[i] \notin {DQuote, Backslash} THEN s
    ELSE Flatten([i \in 1..Len(s) |-> IF s[i] \in {DQuote, Backslash} THEN <<Backslash, s[i]>> ELSE <<s[i]>>])

RECURSIVE Unescape(_)
\* json.decoder: a backslash stands for the character after it
Unescape(s) ==
    IF \A i \in 1..Len(s) : s[i] # Backslash THEN s
    ELSE IF s[1] = Backslash /\ Len(s) >= 2 THEN <<s[2]>> \o Unescape(SubSeq(s, 3, Len(s)))
    ELSE <<s[1]>> \o Unescape(Tail(s))

\* the JSON string literal of s, as one token
JString(s) == <<DQuote>> \o Escape(s) \o <<DQuote>>

\* the string literal of every key
KeyToken == [f \in DOMAIN KeyChars |-> JString(KeyChars[f])]

RECURSIVE JoinComma(_, _)
\* the texts parts[i], parts[i + 1], ... with ", " between them
JoinComma(parts, i) ==
    IF i > Len(parts) THEN <<>>
    ELSE IF i = Len(parts) THEN parts[i]
    ELSE parts[i] \o <<Comma>> \o JoinComma(parts, i + 1)

\* a list: [item, item, ...]
JArray(items) == <<LBracket>> \o JoinComma(items, 1) \o <<RBracket>>

\* a dict is written with its keys in insertion order: {"key": value, ...}
DumpsTask(t) ==
    << LBrace, KeyToken.name, Colon, JString(t.name), Comma,
       KeyToken.description, Colon, JString(t.description), Comma,
       KeyToken.assigned_to, Colon, JString(t.assigned_to), Comma,
       KeyToken.due_date, Colon, JString(t.due_date), Comma,
       KeyToken.priority, Colon, JString(t.priority), Comma,
       KeyToken.status, Colon, JString(t.status), Comma,
       KeyToken.created_at, Colon, JString(t.created_at), RBrace >>

DumpsProject(p) ==
    << LBrace, KeyToken.name, Colon, JString(p.name), Comma,
       KeyToken.description, Colon, JString(p.description), Comma,
       KeyToken.due_date, Colon, JString(p.due_date), Comma >>
    \o (IF "tasks" \in DOMAIN p
        THEN <<KeyToken.tasks, Colon>> \o JArray([k \in 1..Len(p.tasks) |-> DumpsTask(p.tasks[k])]) \o <<Comma>>
        ELSE <<>>)
    \o << KeyToken.created_at, Colon, JString(p.created_at), RBrace >>

DumpsMember(m) ==
    << LBrace, KeyToken.name, Colon, JString(m.name), Comma,
       KeyToken.role, Colon, JString(m.role), Comma,
       KeyToken.email, Colon, JString(m.email), Comma,
       KeyToken.created_at, Colon, JString(m.created_at), RBrace >>

\* json.dumps(state)
Dumps(st) ==
    << LBrace, KeyToken.user_name, Colon, JString(st.user_name), Comma, KeyToken.projects, Colon >>
    \o JArray([k \in 1..Len(st.projects) |-> DumpsProject(st.projects[k])])
    \o << Comma, KeyToken.team_members, Colon >>
    \o JArray([k \in 1..Len(st.team_members) |-> DumpsMember(st.team_members[k])])
    \o << RBrace >>

\* the dictionary key spelled by a string literal
FieldOf(chars) == CHOOSE f \in DOMAIN KeyChars : KeyChars[f] = chars

Unquote(tok) == Unescape(SubSeq(tok, 2, Len(tok) - 1))

RECURSIVE ParseValue(_, _), ParseMembers(_, _, _), ParseItems(_, _, _)
\* json.loads from token i: [v |-> the value, n |-> the index after it]
ParseValue(toks, i) ==
    IF toks[i] = LBrace THEN
        (IF toks[i + 1] = RBrace THEN [v |-> <<>>, n |-> i + 2]
         ELSE ParseMembers(toks, i + 1, <<>>))
    ELSE IF toks[i] = LBracket THEN
        (IF toks[i + 1] = RBracket THEN [v |-> <<>>, n |-> i + 2]
         ELSE ParseItems(toks, i + 1, <<>>))
    ELSE [v |-> Unquote(toks[i]), n |-> i + 1]

\* the members of a dict from the key at token i; a repeated key keeps the last value
ParseMembers(toks, i, acc) ==
    LET key == FieldOf(Unquote(toks[i]))
        val == ParseValue(toks, i + 2)
        now == (key :> val.v) @@ acc
    IN  IF toks[val.n] = Comma THEN ParseMembers(toks, val.n + 1, now)
        ELSE [v |-> now, n |-> val.n + 1]

\* the items of a list from the item at token i
ParseItems(toks, i, acc) ==
    LET val == ParseValue(toks, i)
        now == Append(acc, val.v)
    IN  IF toks[val.n] = Comma THEN ParseItems(toks, val.n + 1, now)
        ELSE [v |-> now, n |-> val.n + 1]

\* json.loads(text)
Loads(toks) == ParseValue(toks, 1).v

-----------------------------------------------------------------------------
(* Literals of the program and the values the commands are called with.   *)

\* agent.py: the defaults of add_project and add_task, the e-mail domain
NoDescription == <<"N","o"," ","d","e","s","c","r","i","p","t","i","o","n"," ","p","r","o","v","i","d","e","d">>
DefaultDueDate == <<"2","0","2","5","-","1","2","-","3","1">>
Unassigned == <<"U","n","a","s","s","i","g","n","e","d">>
Medium == <<"m","e","d","i","u","m">>
Pending == <<"p","e","n","d","i","n","g">>
Completed == <<"c","o","m","p","l","e","t","e","d">>
CompanyDomain == <<"@","c","o","m","p","a","n","y",".","c","o","m">>
\* main.py: initial_state["user_name"]
ProjectManagerName == <<"P","r","o","j","e","c","t"," ","M","a","n","a","g","e","r">>
\* datetime.now().strftime("%Y-%m-%d") on the day of the run
Today == <<"2","0","2","6","-","1","1","-","0","3">>
EmptyString == <<>>

\* main_async: APP_NAME and USER_ID
APP_NAME == "Project Management Assistant"
USER_ID == "project_manager_user"

WebsiteRedesign == <<"W","e","b","s","i","t","e"," ","R","e","d","e","s","i","g","n">>
WebsiteLaunch == <<"W","e","b","s","i","t","e"," ","L","a","u","n","c","h">>
MobileApp == <<"M","o","b","i","l","e"," ","A","p","p">>
DesignLogo == <<"D","e","s","i","g","n"," ","l","o","g","o">>
WriteSpec == <<"W","r","i","t","e"," ","s","p","e","c">>
JimHalpert == <<"J","i","m"," ","H","a","l","p","e","r","t">>
PamBeesly == <<"P","a","m"," ","B","e","e","s","l","y">>
\* a name with the two characters json.dumps escapes: Ali "P\M"
Ali == <<"A","l","i"," ","\"","P","\\","M","\"">>
SalesRole == <<"S","a","l","e","s","m","a","n">>
GivenEmail == <<"j","i","m","@","d","m",".","c","o","m">>
CapCompleted == <<"C","o","m","p","l","e","t","e","d">>
WrongFormatDate == <<"3","1","-","1","2","-","2","0","2","5">>
BadDayDate == <<"2","0","2","5","-","0","2","-","3","0">>
ExplicitDate == <<"2","0","2","5","-","1","2","-","3","1">>
SmartWebsite == <<"A","d","d"," ","t","a","s","k"," ","'","D","e","s","i","g","n"," ","l","o","g","o","'"," ","t","o"," ","t","h","e"," ","W","e","b","s","i","t","e"," ","p","r","o","j","e","c","t">>
SmartLaunch == <<"W","r","i","t","e"," ","s","p","e","c"," ","f","o","r"," ","p","r","o","j","e","c","t"," ","L","a","u","n","c","h">>
Q_web == <<"w","e","b">>
Q_mobile == <<"m","o","b","i","l","e">>
Q_launch == <<"l","a","u","n","c","h">>
Q_zzz == <<"z","z","z">>
Q_m == <<"m">>
Q_jim == <<"j","i","m">>
Alpha == <<"A","l","p","h","a">>
DesignHomepage == <<"D","e","s","i","g","n"," ","h","o","m","e","p","a","g","e">>
Q_design == <<"D","e","s","i","g","n">>
ManagerRole == <<"M","a","n","a","g","e","r">>
Q_SPEC == <<"S","P","E","C">>
NotCompletedStatus == <<"N","o","t"," ","c","o","m","p","l","e","t","e","d">>

\* the arguments the driver passes, one record for every call it may make
Indices == 0..(MaxProjects + 1)
TaskNames == {DesignLogo, WriteSpec}
ProjectQueries == {Q_web, Q_launch, Q_zzz, EmptyString}
MemberQueries == {Q_m, Q_jim, Q_zzz}
TaskQueries == {Q_SPEC, Q_zzz}
UserNames == {Ali}

AddProjectArgs ==
    { [name |-> WebsiteRedesign, description |-> None, due_date |-> None],
      [name |-> WebsiteLaunch, description |-> None, due_date |-> ExplicitDate],
      [name |-> WebsiteLaunch, description |-> None, due_date |-> EmptyString],
      [name |-> WebsiteRedesign, description |-> None, due_date |-> WrongFormatDate],
      [name |-> WebsiteLaunch, description |-> None, due_date |-> BadDayDate],
      [name |-> Alpha, description |-> None, due_date |-> None] }

AddTeamMemberArgs ==
    { [name |-> JimHalpert, role |-> SalesRole, email |-> None],
      [name |-> PamBeesly, role |-> ManagerRole, email |-> GivenEmail] }

AddTaskArgs ==
    { [project_index |-> i, name |-> n, assigned_to |-> None, description |-> None,
       due_date |-> None, priority |-> None] : i \in Indices, n \in TaskNames }

UpdateTeamMemberArgs ==
    { [index |-> i, name |-> None, role |-> None, email |-> GivenEmail] : i \in Indices }
    \cup { [index |-> 1, name |-> None, role |-> None, email |-> None],
           [index |-> 2, name |-> JimHalpert, role |-> SalesRole, email |-> None] }

AddTaskByProjectNameArgs ==
    { [project_name |-> Q_web, task_name |-> DesignLogo],
      [project_name |-> Q_launch, task_name |-> WriteSpec],
      [project_name |-> Q_zzz, task_name |-> DesignLogo],
      [project_name |-> EmptyString, task_name |-> WriteSpec] }

AddTaskSmartArgs ==
    { [task_description |-> SmartWebsite, project_hint |-> None],
      [task_description |-> SmartLaunch, project_hint |-> None],
      [task_description |-> WriteSpec, project_hint |-> None],
      [task_description |-> WriteSpec, project_hint |-> Q_launch] }

\* the calls of execute_function the driver makes: a name it tests for, the
\* name of a command it does not test for, a name of no command, and a
\* dictionary without the parameter "name" and with a key that is no parameter
ExecuteFunctionCalls ==
    { [function_name |-> "add_project",
       args |-> [name |-> Alpha, description |-> None, due_date |-> None]],
      [function_name |-> "delete_project", args |-> [index |-> 1]],
      [function_name |-> "archive_project", args |-> [index |-> 1]],
      [function_name |-> "find_project_by_name", args |-> [query |-> Q_web]] }

UpdateTaskStatusArgs ==
    { [project_name |-> Q_web, task_name |-> WriteSpec, new_status |-> Completed],
      [project_name |-> Q_launch, task_name |-> WriteSpec, new_status |-> CapCompleted],
      [project_name |-> Q_launch, task_name |-> Q_zzz, new_status |-> Completed],
      [project_name |-> Q_zzz, task_name |-> WriteSpec, new_status |-> Completed],
      [project_name |-> EmptyString, task_name |-> DesignLogo, new_status |-> NotCompletedStatus],
      [project_name |-> Alpha, task_name |-> WriteSpec, new_status |-> Completed] }

-----------------------------------------------------------------------------
(* SessionManager (src/main.py): the sessions table.                      *)

\* initial_state
InitialState == [user_name |-> ProjectManagerName, projects |-> <<>>, team_members |-> <<>>]

\* before the first run there is no agent
NoAgent == [state |-> InitialState, session_id |-> 0, conversation_history |-> <<>>, live |-> FALSE]
NoCall == [op |-> "none", args |-> <<>>]
NoRet == <<>>

\* SELECT ... WHERE app_name = ? AND user_id = ?
SessionsOf(rows, app_name, user_id) ==
    {i \in DOMAIN rows : rows[i].app_name = app_name /\ rows[i].user_id = user_id}

\* ORDER BY updated_at DESC LIMIT 1: the rows fetchone() may return
NewestSessions(rows, app_name, user_id) ==
    {i \in SessionsOf(rows, app_name, user_id) :
        \A j \in SessionsOf(rows, app_name, user_id) : rows[j].updated_at <= rows[i].updated_at}

\* str(uuid.uuid4()): an id no row has
NewSessionId(rows) == Len(rows) + 1

\* INSERT INTO sessions (id, app_name, user_id, state); both timestamps default to now
InsertSession(rows, app_name, user_id, state, now) ==
    Append(rows, [id |-> NewSessionId(rows), app_name |-> app_name, user_id |-> user_id,
                  state |-> Dumps(state), created_at |-> now, updated_at |-> now])

\* the UPDATE without its WHERE clause: every row takes the state
update_session_state_every_row(rows, session_id, state, now) ==
    [i \in DOMAIN rows |-> [rows[i] EXCEPT !.state = Dumps(state), !.updated_at = now]]

\* UPDATE sessions SET state = ?, updated_at = CURRENT_TIMESTAMP WHERE id = ?
update_session_state(rows, session_id, state, now) ==
    [i \in DOMAIN rows |->
        IF rows[i].id = session_id
        THEN [rows[i] EXCEPT !.state = Dumps(state), !.updated_at = now]
        ELSE rows[i]]

RECURSIVE Persist(_, _, _, _)
\* the calls of update_session_state one command makes, in order
Persist(rows, session_id, writes, now) ==
    IF writes = <<>> THEN rows
    ELSE Persist(update_session_state(rows, session_id, Head(writes), now), session_id, Tail(writes), now)

\* the state json.loads gives for the row with this id
StoredState(rows, session_id) ==
    Loads(rows[CHOOSE i \in DOMAIN rows : rows[i].id = session_id].state)

-----------------------------------------------------------------------------
(* ProjectManagementAgent (src/project_management_agent/agent.py).  Each   *)
(* handler is a function of self.state and its arguments to the state it   *)
(* leaves in memory, the states it hands to update_session_state (in       *)
(* order) and the dictionary it returns.                                   *)

Msg(text, args) == [text |-> text, args |-> args]

\* a handler that has not written yet
Begin(st) == [state |-> st, writes |-> <<>>]

\* self.state[key] = value without the call of update_session_state
_update_state_in_memory(o, key, value) ==
    [state |-> [o.state EXCEPT ![key] = value], writes |-> o.writes]

\* self.state[key] = value; self.session_manager.update_session_state(self.session_id, self.state)
_update_state(o, key, value) ==
    LET st == [o.state EXCEPT ![key] = value]
    IN  [state |-> st, writes |-> Append(o.writes, st)]

Return(o, result) == [state |-> o.state, writes |-> o.writes, result |-> result]

\* the "status" entry of a returned dictionary; Absent when it has none
Absent == "<absent>"
StatusOf(r) == IF "status" \in DOMAIN r THEN r.status ELSE Absent

\* len([t for t in tasks if t.get("status") == "completed"])
CompletedCount(tasks) == Len(SelectSeq(tasks, LAMBDA t : t.status = Completed))

TaskCount(st) ==
    SeqSum([i \in 1..Len(st.projects) |->
                IF "tasks" \in DOMAIN st.projects[i] THEN Len(st.projects[i].tasks) ELSE 0])

\* add_project with projects.insert(0, new_project) in the place of append
add_project_in_front(st, name, description, due_date) ==
    LET desc == IF description = None THEN NoDescription ELSE description
        due == IF due_date = None THEN DefaultDueDate ELSE due_date
        new_project == [name |-> name, description |-> desc, due_date |-> due,
                        tasks |-> <<>>, created_at |-> Today]
    IN  IF due # EmptyString /\ ~StrptimeYmd(due)
        THEN Return(Begin(st),
                    [action |-> "add_project", status |-> "error",
                     message |-> Msg("Invalid date format: {due_date}. Please use YYYY-MM-DD format.", <<due>>)])
        ELSE Return(_update_state(Begin(st), "projects", <<new_project>> \o st.projects),
                    [action |-> "add_project", project |-> name,
                     message |-> Msg("Added project: {name} with due date {due_date}", <<name, due>>)])

\* add_project without "tasks": [] in the new project
add_project_without_tasks(st, name, description, due_date) ==
    LET desc == IF description = None THEN NoDescription ELSE description
        due == IF due_date = None THEN DefaultDueDate ELSE due_date
        new_project == [name |-> name, description |-> desc, due_date |-> due, created_at |-> Today]
    IN  IF due # EmptyString /\ ~StrptimeYmd(due)
        THEN Return(Begin(st),
                    [action |-> "add_project", status |-> "error",
                     message |-> Msg("Invalid date format: {due_date}. Please use YYYY-MM-DD format.", <<due>>)])
        ELSE Return(_update_state(Begin(st), "projects", Append(st.projects, new_project)),
                    [action |-> "add_project", project |-> name,
                     message |-> Msg("Added project: {name} with due date {due_date}", <<name, due>>)])

add_project(st, name, description, due_date) ==
    LET desc == IF description = None THEN NoDescription ELSE description
        due == IF due_date = None THEN DefaultDueDate ELSE due_date
        new_project == [name |-> name, description |-> desc, due_date |-> due,
                        tasks |-> <<>>, created_at |-> Today]
    IN  IF due # EmptyString /\ ~StrptimeYmd(due)
        THEN Return(Begin(st),
                    [action |-> "add_project", status |-> "error",
                     message |-> Msg("Invalid date format: {due_date}. Please use YYYY-MM-DD format.", <<due>>)])
        ELSE Return(_update_state(Begin(st), "projects", Append(st.projects, new_project)),
                    [action |-> "add_project", project |-> name,
                     message |-> Msg("Added project: {name} with due date {due_date}", <<name, due>>)])

\* one line of formatted_list
ProjectLine(i, project) ==
    [index |-> i, name |-> project.name, due_date |-> project.due_date,
     completed_tasks |-> CompletedCount(project.tasks), task_count |-> Len(project.tasks)]

\* view_projects that stores the list it has read
view_projects_saving(st) ==
    LET formatted_list == [i \in 1..Len(st.projects) |-> ProjectLine(i, st.projects[i])]
    IN  Return(_update_state(Begin(st), "projects", st.projects),
               [action |-> "view_projects", projects |-> st.projects, count |-> Len(st.projects),
                formatted_list |-> formatted_list,
                message |-> Msg("Current projects ({count}):\n{formatted_list}", <<Len(st.projects), formatted_list>>)])

view_projects(st) ==
    IF st.projects = <<>>
    THEN Return(Begin(st),
                [action |-> "view_projects", projects |-> <<>>, count |-> 0,
                 message |-> Msg("No projects found. You can create a new project by saying 'Create a project called [Project Name]'.", <<>>)])
    ELSE LET formatted_list == [i \in 1..Len(st.projects) |-> ProjectLine(i, st.projects[i])]
         IN  Return(Begin(st),
                    [action |-> "view_projects", projects |-> st.projects, count |-> Len(st.projects),
                     formatted_list |-> formatted_list,
                     message |-> Msg("Current projects ({count}):\n{formatted_list}", <<Len(st.projects), formatted_list>>)])

\* f"{name.lower().replace(' ', '.')}@company.com"
DefaultEmail(name) == ReplaceChar(Lower(name), " ", ".") \o CompanyDomain

add_team_member(st, name, role, email) ==
    LET mail == IF email = None THEN DefaultEmail(name) ELSE email
        new_member == [name |-> name, role |-> role, email |-> mail, created_at |-> Today]
    IN  Return(_update_state(Begin(st), "team_members", Append(st.team_members, new_member)),
               [action |-> "add_team_member", member |-> name,
                message |-> Msg("Added team member: {name} with role {role} and email {email}", <<name, role, mail>>)])

view_team_members(st) ==
    IF st.team_members = <<>>
    THEN Return(Begin(st),
                [action |-> "view_team_members", team_members |-> <<>>, count |-> 0,
                 message |-> Msg("No team members found. You can add team members by saying 'Add [Name] as a [Role]'.", <<>>)])
    ELSE LET formatted_list == [i \in 1..Len(st.team_members) |->
                                    [index |-> i, name |-> st.team_members[i].name,
                                     role |-> st.team_members[i].role, email |-> st.team_members[i].email]]
         IN  Return(Begin(st),
                    [action |-> "view_team_members", team_members |-> st.team_members,
                     count |-> Len(st.team_members), formatted_list |-> formatted_list,
                     message |-> Msg("Current team members ({count}):\n{formatted_list}", <<Len(st.team_members), formatted_list>>)])

\* zero_based_index < 0 or zero_based_index >= len(items), for the 1-based index
InvalidIndex(index, items) ==
    LET zero_based_index == index - 1
    IN  zero_based_index < 0 \/ zero_based_index >= Len(items)

\* items.pop(): the last item, whatever the index
PopLast(items, index) == SubSeq(items, 1, Len(items) - 1)

\* items.pop(index - 1)
Pop(items, index) == SubSeq(items, 1, index - 1) \o SubSeq(items, index + 1, Len(items))

add_task(st, project_index, name, assigned_to, description, due_date, priority) ==
    LET projects == st.projects
        new_task == [name |-> name,
                     description |-> IF description = None THEN NoDescription ELSE description,
                     assigned_to |-> IF assigned_to = None THEN Unassigned ELSE assigned_to,
                     due_date |-> IF due_date = None THEN DefaultDueDate ELSE due_date,
                     priority |-> IF priority = None THEN Medium ELSE priority,
                     status |-> Pending,
                     created_at |-> Today]
    IN  IF InvalidIndex(project_index, projects)
        THEN Return(Begin(st),
                    [action |-> "add_task", status |-> "error",
                     message |-> Msg("Invalid project index: {project_index}. Please choose between 1 and {len(projects)}.",
                                     <<project_index, Len(projects)>>)])
        ELSE Return(_update_state(Begin(st), "projects",
                                  [projects EXCEPT ![project_index].tasks = Append(@, new_task)]),
                    [action |-> "add_task", task |-> name, project |-> projects[project_index].name,
                     message |-> Msg("Added task '{name}' to project '{project}'", <<name, projects[project_index].name>>)])

\* update_user_name storing name.lower()
update_user_name_lower(st, name) ==
    Return(_update_state(Begin(st), "user_name", Lower(name)),
           [action |-> "update_user_name", message |-> Msg("Updated user name to: {name}", <<name>>)])

update_user_name(st, name) ==
    Return(_update_state(Begin(st), "user_name", name),
           [action |-> "update_user_name", message |-> Msg("Updated user name to: {name}", <<name>>)])

\* update_team_member without the lines that overwrite the role
update_team_member_without_role(st, index, name, role, email) ==
    LET team_members == st.team_members
    IN  IF InvalidIndex(index, team_members)
        THEN Return(Begin(st),
                    [action |-> "update_team_member", status |-> "error",
                     message |-> Msg("Invalid team member index: {index}. Please choose between 1 and {len(team_members)}.",
                                     <<index, Len(team_members)>>)])
        ELSE LET member == [name |-> IF name # None THEN name ELSE team_members[index].name,
                            role |-> team_members[index].role,
                            email |-> IF email # None THEN email ELSE team_members[index].email,
                            created_at |-> team_members[index].created_at]
             IN  Return(_update_state(Begin(st), "team_members", [team_members EXCEPT ![index] = member]),
                        [action |-> "update_team_member", member |-> member.name,
                         message |-> Msg("Updated team member: {name}", <<member.name>>)])

update_team_member(st, index, name, role, email) ==
    LET team_members == st.team_members
    IN  IF InvalidIndex(index, team_members)
        THEN Return(Begin(st),
                    [action |-> "update_team_member", status |-> "error",
                     message |-> Msg("Invalid team member index: {index}. Please choose between 1 and {len(team_members)}.",
                                     <<index, Len(team_members)>>)])
        ELSE LET member == [name |-> IF name # None THEN name ELSE team_members[index].name,
                            role |-> IF role # None THEN role ELSE team_members[index].role,
                            email |-> IF email # None THEN email ELSE team_members[index].email,
                            created_at |-> team_members[index].created_at]
             IN  Return(_update_state(Begin(st), "team_members", [team_members EXCEPT ![index] = member]),
                        [action |-> "update_team_member", member |-> member.name,
                         message |-> Msg("Updated team member: {name}", <<member.name>>)])

\* delete_team_member with team_members.pop(0): the first member, whatever the index
delete_team_member_first(st, index) ==
    LET team_members == st.team_members
    IN  IF InvalidIndex(index, team_members)
        THEN Return(Begin(st),
                    [action |-> "delete_team_member", status |-> "error",
                     message |-> Msg("Invalid team member index: {index}. Please choose between 1 and {len(team_members)}.",
                                     <<index, Len(team_members)>>)])
        ELSE Return(_update_state(Begin(st), "team_members", Tail(team_members)),
                    [action |-> "delete_team_member", member |-> team_members[1].name,
                     message |-> Msg("Deleted team member: {name}", <<team_members[1].name>>)])

delete_team_member(st, index) ==
    LET team_members == st.team_members
    IN  IF InvalidIndex(index, team_members)
        THEN Return(Begin(st),
                    [action |-> "delete_team_member", status |-> "error",
                     message |-> Msg("Invalid team member index: {index}. Please choose between 1 and {len(team_members)}.",
                                     <<index, Len(team_members)>>)])
        ELSE Return(_update_state(Begin(st), "team_members", Pop(team_members, index)),
                    [action |-> "delete_team_member", member |-> team_members[index].name,
                     message |-> Msg("Deleted team member: {name}", <<team_members[index].name>>)])

\* the loop of find_*_by_name with a break after the first match
FirstMatchFrom(items, name, i) ==
    IF \E k \in i..Len(items) : NameMatches(name, items[k].name)
    THEN LET first == CHOOSE k \in i..Len(items) :
                        /\ NameMatches(name, items[k].name)
                        /\ \A j \in i..(k - 1) : ~NameMatches(name, items[j].name)
         IN  <<[index |-> first, item |-> items[first]]>>
    ELSE <<>>

RECURSIVE MatchesFrom(_, _, _)
\* the loop of find_*_by_name from 1-based position i: the matches, in list order
MatchesFrom(items, name, i) ==
    IF i > Len(items) THEN <<>>
    ELSE IF NameMatches(name, items[i].name)
         THEN <<[index |-> i, item |-> items[i]]>> \o MatchesFrom(items, name, i + 1)
         ELSE MatchesFrom(items, name, i + 1)

Matches(items, name) == MatchesFrom(items, name, 1)

find_team_member_by_name(st, name) ==
    LET found == Matches(st.team_members, name)
        matches == [k \in 1..Len(found) |-> [index |-> found[k].index, member |-> found[k].item]]
    IN  IF Len(matches) = 0
        THEN Return(Begin(st),
                    [action |-> "find_team_member_by_name", status |-> "not_found",
                     message |-> Msg("No team member found with name containing '{name}'", <<name>>)])
        ELSE IF Len(matches) = 1
        THEN Return(Begin(st),
                    [action |-> "find_team_member_by_name", status |-> "found", match |-> matches[1],
                     message |-> Msg("Found team member: {name} at index {index}", <<matches[1].member.name, matches[1].index>>)])
        ELSE Return(Begin(st),
                    [action |-> "find_team_member_by_name", status |-> "multiple_matches", matches |-> matches,
                     message |-> Msg("Found {len(matches)} team members matching '{name}'", <<Len(matches), name>>)])

find_project_by_name(st, name) ==
    LET found == Matches(st.projects, name)
        matches == [k \in 1..Len(found) |-> [index |-> found[k].index, project |-> found[k].item]]
    IN  IF Len(matches) = 0
        THEN Return(Begin(st),
                    [action |-> "find_project_by_name", status |-> "not_found",
                     message |-> Msg("No project found with name containing '{name}'", <<name>>)])
        ELSE IF Len(matches) = 1
        THEN Return(Begin(st),
                    [action |-> "find_project_by_name", status |-> "found", match |-> matches[1],
                     message |-> Msg("Found project: {name} at index {index}", <<matches[1].project.name, matches[1].index>>)])
        ELSE Return(Begin(st),
                    [action |-> "find_project_by_name", status |-> "multiple_matches", matches |-> matches,
                     message |-> Msg("Found {len(matches)} projects matching '{name}'", <<Len(matches), name>>)])

\* [f"{match['index']}. {match['project']['name']}" for match in find_result["matches"]]
ProjectList(matches) == [k \in 1..Len(matches) |-> [index |-> matches[k].index, name |-> matches[k].project.name]]

\* add_task_by_project_name taking the first of the projects that match
add_task_by_first_match(st, project_name, task_name, assigned_to, description, due_date, priority) ==
    LET found == Matches(st.projects, project_name)
    IN  IF found = <<>>
        THEN Return(Begin(st),
                    [action |-> "add_task_by_project_name", status |-> "error",
                     message |-> Msg("Could not find project '{project_name}'. Please check the project name or create it first.", <<project_name>>)])
        ELSE add_task(st, found[1].index, task_name, assigned_to, description, due_date, priority)

add_task_by_project_name(st, project_name, task_name, assigned_to, description, due_date, priority) ==
    LET find_result == find_project_by_name(st, project_name).result
    IN  IF find_result.status = "not_found"
        THEN Return(Begin(st),
                    [action |-> "add_task_by_project_name", status |-> "error",
                     message |-> Msg("Could not find project '{project_name}'. Please check the project name or create it first.", <<project_name>>)])
        ELSE IF find_result.status = "multiple_matches"
        THEN Return(Begin(st),
                    [action |-> "add_task_by_project_name", status |-> "error",
                     message |-> Msg("Found multiple projects matching '{project_name}':\n{project_list}\nPlease be more specific.",
                                     <<project_name, ProjectList(find_result.matches)>>)])
        ELSE add_task(st, find_result.match.index, task_name, assigned_to, description, due_date, priority)

-----------------------------------------------------------------------------
(* add_task_smart: the regular expressions, as re.search and re.sub with  *)
(* re.IGNORECASE evaluate them.                                            *)

IsSpace(c) == c \in {" ", "\t", "\n", "\r"}

RECURSIVE LStrip(_)
LStrip(s) == IF s # <<>> /\ IsSpace(s[1]) THEN LStrip(Tail(s)) ELSE s

RECURSIVE RStrip(_)
RStrip(s) == IF s # <<>> /\ IsSpace(s[Len(s)]) THEN RStrip(SubSeq(s, 1, Len(s) - 1)) ELSE s

\* str.strip()
Strip(s) == RStrip(LStrip(s))

The_ == <<"t","h","e"," ">>
Project_ == <<" ","p","r","o","j","e","c","t">>
Add_ == <<"a","d","d"," ">>
Create_ == <<"c","r","e","a","t","e"," ">>
Task_ == <<"t","a","s","k"," ">>
Quotes == {"'", DQuote}

\* the prefixes of the six project_patterns, in order; the odd ones are
\* r'<prefix>(?:the )?(.+?) project', the even ones r'<prefix>project (.+)'
PatternPrefixes == <<<<"t","o"," ">>, <<"t","o"," ">>, <<"f","o","r"," ">>, <<"f","o","r"," ">>, <<"i","n"," ">>, <<"i","n"," ">>>>
PatternCount == 6

NoMatch == [ok |-> FALSE, start |-> 0, end |-> 0, g1 |-> 0, g2 |-> 0]

RECURSIVE FindFrom(_, _, _)
\* the least position from i on at which p starts in s, 0 when there is none
FindFrom(s, p, i) ==
    IF i + Len(p) - 1 > Len(s) THEN 0
    ELSE IF StartsAt(s, p, i) THEN i
    ELSE FindFrom(s, p, i + 1)

\* r'<prefix>(?:the )?(.+?) project' matched at position p of the lowered text lt:
\* the optional "the " is tried first, then skipped; the group (.+?) is the
\* shortest one of at least one character that " project" follows
LazyMatchAt(lt, prefix, p) ==
    LET q0 == p + Len(prefix)
        q1 == q0 + Len(The_)
        e0 == FindFrom(lt, Project_, q0 + 1)
        e1 == FindFrom(lt, Project_, q1 + 1)
    IN  IF ~StartsAt(lt, prefix, p) THEN NoMatch
        ELSE IF StartsAt(lt, The_, q0) /\ e1 # 0
        THEN [ok |-> TRUE, start |-> p, end |-> e1 + Len(Project_) - 1, g1 |-> q1, g2 |-> e1 - 1]
        ELSE IF e0 # 0
        THEN [ok |-> TRUE, start |-> p, end |-> e0 + Len(Project_) - 1, g1 |-> q0, g2 |-> e0 - 1]
        ELSE NoMatch

\* r'<prefix>project (.+)' matched at position p: the group runs to the end of the text
GreedyMatchAt(lt, prefix, p) ==
    LET q == p + Len(prefix) + Len(Tail(Project_)) + 1
    IN  IF StartsAt(lt, prefix \o Tail(Project_) \o <<" ">>, p) /\ q <= Len(lt)
        THEN [ok |-> TRUE, start |-> p, end |-> Len(lt), g1 |-> q, g2 |-> Len(lt)]
        ELSE NoMatch

PatternMatchAt(lt, k, p) ==
    IF k % 2 = 1 THEN LazyMatchAt(lt, PatternPrefixes[k], p) ELSE GreedyMatchAt(lt, PatternPrefixes[k], p)

RECURSIVE SearchFrom(_, _, _)
\* the first match of pattern k in lt that starts at position p or later
SearchFrom(lt, k, p) ==
    IF p > Len(lt) THEN NoMatch
    ELSE IF PatternMatchAt(lt, k, p).ok THEN PatternMatchAt(lt, k, p)
    ELSE SearchFrom(lt, k, p + 1)

\* re.search(project_patterns[k], text, re.IGNORECASE): the leftmost match
Search(text, k) == SearchFrom(Lower(text), k, 1)

RECURSIVE Sub(_, _)
\* re.sub(project_patterns[k], '', text, flags=re.IGNORECASE): every match is removed
Sub(text, k) ==
    LET m == Search(text, k)
    IN  IF ~m.ok THEN text
        ELSE SubSeq(text, 1, m.start - 1) \o Sub(SubSeq(text, m.end + 1, Len(text)), k)

\* re.sub(r'^(?:add |create )?(?:task )?[\'"]?', '', task_name, flags=re.IGNORECASE)
StripLeadingWords(task_name) ==
    LET lt == Lower(task_name)
        a == IF StartsAt(lt, Add_, 1) THEN Len(Add_)
             ELSE IF StartsAt(lt, Create_, 1) THEN Len(Create_) ELSE 0
        b == IF StartsAt(lt, Task_, a + 1) THEN a + Len(Task_) ELSE a
        c == IF b + 1 <= Len(lt) /\ lt[b + 1] \in Quotes THEN b + 1 ELSE b
    IN  SubSeq(task_name, c + 1, Len(task_name))

\* re.sub(r'[\'"]?$', '', task_name)
StripTrailingQuote(task_name) ==
    IF task_name # <<>> /\ task_name[Len(task_name)] \in Quotes
    THEN SubSeq(task_name, 1, Len(task_name) - 1)
    ELSE task_name

RECURSIVE FirstPatternFrom(_, _)
\* the first of the patterns k, k + 1, ... that matches, 0 when none does
FirstPatternFrom(text, k) ==
    IF k > PatternCount THEN 0
    ELSE IF Search(text, k).ok THEN k
    ELSE FirstPatternFrom(text, k + 1)

\* for pattern in project_patterns: ... break
FirstPattern(text) == FirstPatternFrom(text, 1)

\* project_name and task_name after the loop over project_patterns
ExtractProject(task_description, project_hint) ==
    LET k == FirstPattern(task_description)
        m == Search(task_description, k)
    IN  IF (project_hint = None \/ project_hint = EmptyString) /\ k # 0
        THEN [project_name |-> Strip(SubSeq(task_description, m.g1, m.g2)),
              task_name |-> Strip(Sub(task_description, k))]
        ELSE [project_name |-> project_hint, task_name |-> task_description]

\* task_name after the clean-up
CleanTaskName(task_name) == Strip(StripTrailingQuote(StripLeadingWords(task_name)))

\* project_name and task_name when the parsing of add_task_smart is over
ParseRequest(task_description, project_hint) ==
    LET found == ExtractProject(task_description, project_hint)
    IN  [project_name |-> found.project_name, task_name |-> CleanTaskName(found.task_name)]

\* ParseRequest on the requests the driver makes, computed once
ParsedRequests ==
    [a \in AddTaskSmartArgs |-> ParseRequest(a.task_description, a.project_hint)]

\* the parsing of add_task_smart, read from ParsedRequests where it is there
Parsed(task_description, project_hint) ==
    LET request == [task_description |-> task_description, project_hint |-> project_hint]
    IN  IF request \in DOMAIN ParsedRequests
        THEN ParsedRequests[request]
        ELSE ParseRequest(task_description, project_hint)

\* add_task_smart taking the first project when it has found no project name
add_task_smart_guessing(st, task_description, project_hint) ==
    LET found == Parsed(task_description, project_hint)
    IN  IF found.project_name = None \/ found.project_name = EmptyString
        THEN add_task(st, 1, found.task_name, None, None, None, None)
        ELSE add_task_by_project_name(st, found.project_name, found.task_name, None, None, None, None)

add_task_smart(st, task_description, project_hint) ==
    LET found == Parsed(task_description, project_hint)
        project_name == found.project_name
        task_name == found.task_name
        projects == st.projects
    IN  IF project_name = None \/ project_name = EmptyString
        THEN (IF projects = <<>>
              THEN Return(Begin(st),
                          [action |-> "add_task_smart", status |-> "error",
                           message |-> Msg("No projects available. Please create a project first, or specify which project to add the task to.", <<>>)])
              ELSE Return(Begin(st),
                          [action |-> "add_task_smart", status |-> "error",
                           message |-> Msg("Which project should I add '{task_name}' to?\n{project_list}",
                                           <<task_name, [i \in 1..Len(projects) |-> [index |-> i, name |-> projects[i].name]]>>)]))
        ELSE add_task_by_project_name(st, project_name, task_name, None, None, None, None)

\* delete_project without the test of zero_based_index < 0: projects.pop(-1) removes the last one
delete_project_negative_index(st, index) ==
    LET projects == st.projects
        position == IF index < 1 THEN Len(projects) ELSE index
    IN  IF projects = <<>> \/ index > Len(projects)
        THEN Return(Begin(st),
                    [action |-> "delete_project", status |-> "error",
                     message |-> Msg("Invalid project index: {index}. Please choose between 1 and {len(projects)}.",
                                     <<index, Len(projects)>>)])
        ELSE Return(_update_state(Begin(st), "projects", Pop(projects, position)),
                    [action |-> "delete_project", project |-> projects[position].name,
                     message |-> Msg("Deleted project: {name}", <<projects[position].name>>)])

delete_project(st, index) ==
    LET projects == st.projects
    IN  IF InvalidIndex(index, projects)
        THEN Return(Begin(st),
                    [action |-> "delete_project", status |-> "error",
                     message |-> Msg("Invalid project index: {index}. Please choose between 1 and {len(projects)}.",
                                     <<index, Len(projects)>>)])
        ELSE Return(_update_state(Begin(st), "projects", Pop(projects, index)),
                    [action |-> "delete_project", project |-> projects[index].name,
                     message |-> Msg("Deleted project: {name}", <<projects[index].name>>)])

\* delete_project_by_name passing the 0-based position of the match to delete_project
delete_project_by_position(st, name) ==
    LET found == Matches(st.projects, name)
    IN  IF Len(found) = 1 THEN delete_project(st, found[1].index - 1)
        ELSE Return(Begin(st),
                    [action |-> "delete_project_by_name", status |-> "error",
                     message |-> Msg("Could not find project '{name}' to delete.", <<name>>)])

delete_project_by_name(st, name) ==
    LET find_result == find_project_by_name(st, name).result
    IN  IF find_result.status = "not_found"
        THEN Return(Begin(st),
                    [action |-> "delete_project_by_name", status |-> "error",
                     message |-> Msg("Could not find project '{name}' to delete.", <<name>>)])
        ELSE IF find_result.status = "multiple_matches"
        THEN Return(Begin(st),
                    [action |-> "delete_project_by_name", status |-> "error",
                     message |-> Msg("Found multiple projects matching '{name}':\n{project_list}\nPlease be more specific.",
                                     <<name, ProjectList(find_result.matches)>>)])
        ELSE delete_project(st, find_result.match.index)

clear_all_projects(st) ==
    Return(_update_state(Begin(st), "projects", <<>>),
           [action |-> "clear_all_projects", message |-> Msg("All projects have been cleared.", <<>>)])

clear_all_team_members(st) ==
    Return(_update_state(Begin(st), "team_members", <<>>),
           [action |-> "clear_all_team_members", message |-> Msg("All team members have been cleared.", <<>>)])

\* clear_all_data without the second _update_state: the team members stay
clear_all_data_keeps_members(st) ==
    Return(_update_state(Begin(st), "projects", <<>>),
           [action |-> "clear_all_data", message |-> Msg("All projects, tasks, and team members have been cleared.", <<>>)])

clear_all_data(st) ==
    Return(_update_state(_update_state(Begin(st), "projects", <<>>), "team_members", <<>>),
           [action |-> "clear_all_data", message |-> Msg("All projects, tasks, and team members have been cleared.", <<>>)])

\* the 1-based position of the first item whose name contains the query, 0 when none does
FirstMatch(items, query) ==
    IF Matches(items, query) = <<>> THEN 0 ELSE Matches(items, query)[1].index

\* update_task_status assigning the status to a copy of the task: the result
\* reports the change, the state does not have it
update_task_status_on_copy(st, project_name, task_name, new_status) ==
    LET projects == st.projects
        p == FirstMatch(projects, project_name)
        t == FirstMatch(projects[p].tasks, task_name)
        old_status == projects[p].tasks[t].status
    IN  IF p = 0
        THEN Return(Begin(st),
                    [action |-> "update_task_status", status |-> "error",
                     message |-> Msg("Could not find project containing '{project_name}'.", <<project_name>>)])
        ELSE IF t = 0
        THEN Return(Begin(st),
                    [action |-> "update_task_status", status |-> "error",
                     message |-> Msg("Could not find task '{task_name}' in project '{project}'.", <<task_name, projects[p].name>>)])
        ELSE Return(_update_state(Begin(st), "projects", projects),
                    [action |-> "update_task_status", status |-> "success",
                     project |-> projects[p].name, task |-> projects[p].tasks[t].name,
                     old_status |-> old_status, new_status |-> new_status,
                     message |-> Msg("Updated task '{task}' status from '{old_status}' to '{new_status}' in project '{project}'.",
                                     <<projects[p].tasks[t].name, old_status, new_status, projects[p].name>>)])

\* update_task_status looking for the task in every project that matches, not
\* only in the first one
update_task_status_any_project(st, project_name, task_name, new_status) ==
    LET projects == st.projects
        holding == SelectSeq(Matches(projects, project_name),
                             LAMBDA m : FirstMatch(m.item.tasks, task_name) # 0)
        p == IF holding # <<>> THEN holding[1].index ELSE FirstMatch(projects, project_name)
        t == FirstMatch(projects[p].tasks, task_name)
        old_status == projects[p].tasks[t].status
    IN  IF p = 0
        THEN Return(Begin(st),
                    [action |-> "update_task_status", status |-> "error",
                     message |-> Msg("Could not find project containing '{project_name}'.", <<project_name>>)])
        ELSE IF t = 0
        THEN Return(Begin(st),
                    [action |-> "update_task_status", status |-> "error",
                     message |-> Msg("Could not find task '{task_name}' in project '{project}'.", <<task_name, projects[p].name>>)])
        ELSE Return(_update_state(Begin(st), "projects",
                                  [projects EXCEPT ![p].tasks[t].status = Lower(new_status)]),
                    [action |-> "update_task_status", status |-> "success",
                     project |-> projects[p].name, task |-> projects[p].tasks[t].name,
                     old_status |-> old_status, new_status |-> new_status,
                     message |-> Msg("Updated task '{task}' status from '{old_status}' to '{new_status}' in project '{project}'.",
                                     <<projects[p].tasks[t].name, old_status, new_status, projects[p].name>>)])

\* update_task_status storing new_status as it was given
update_task_status_as_given(st, project_name, task_name, new_status) ==
    LET projects == st.projects
        p == FirstMatch(projects, project_name)
        t == FirstMatch(projects[p].tasks, task_name)
        old_status == projects[p].tasks[t].status
    IN  IF p = 0
        THEN Return(Begin(st),
                    [action |-> "update_task_status", status |-> "error",
                     message |-> Msg("Could not find project containing '{project_name}'.", <<project_name>>)])
        ELSE IF t = 0
        THEN Return(Begin(st),
                    [action |-> "update_task_status", status |-> "error",
                     message |-> Msg("Could not find task '{task_name}' in project '{project}'.", <<task_name, projects[p].name>>)])
        ELSE Return(_update_state(Begin(st), "projects",
                                  [projects EXCEPT ![p].tasks[t].status = new_status]),
                    [action |-> "update_task_status", status |-> "success",
                     project |-> projects[p].name, task |-> projects[p].tasks[t].name,
                     old_status |-> old_status, new_status |-> new_status,
                     message |-> Msg("Updated task '{task}' status from '{old_status}' to '{new_status}' in project '{project}'.",
                                     <<projects[p].tasks[t].name, old_status, new_status, projects[p].name>>)])

update_task_status(st, project_name, task_name, new_status) ==
    LET projects == st.projects
        p == FirstMatch(projects, project_name)
        t == FirstMatch(projects[p].tasks, task_name)
        old_status == projects[p].tasks[t].status
    IN  IF p = 0
        THEN Return(Begin(st),
                    [action |-> "update_task_status", status |-> "error",
                     message |-> Msg("Could not find project containing '{project_name}'.", <<project_name>>)])
        ELSE IF t = 0
        THEN Return(Begin(st),
                    [action |-> "update_task_status", status |-> "error",
                     message |-> Msg("Could not find task '{task_name}' in project '{project}'.", <<task_name, projects[p].name>>)])
        ELSE Return(_update_state(Begin(st), "projects",
                                  [projects EXCEPT ![p].tasks[t].status = Lower(new_status)]),
                    [action |-> "update_task_status", status |-> "success",
                     project |-> projects[p].name, task |-> projects[p].tasks[t].name,
                     old_status |-> old_status, new_status |-> new_status,
                     message |-> Msg("Updated task '{task}' status from '{old_status}' to '{new_status}' in project '{project}'.",
                                     <<projects[p].tasks[t].name, old_status, new_status, projects[p].name>>)])

\* the names of the projects that lost a task, in project order
AffectedProjects(projects, remaining) ==
    LET hit == SelectSeq([i \in 1..Len(projects) |-> i],
                         LAMBDA i : Len(remaining[i].tasks) < Len(projects[i].tasks))
    IN  [k \in 1..Len(hit) |-> projects[hit[k]].name]

\* delete_tasks_by_name without the branch for deleted_count == 0
delete_tasks_by_name_always_success(st, task_name) ==
    LET projects == st.projects
        remaining == [i \in 1..Len(projects) |->
                        [projects[i] EXCEPT !.tasks =
                            SelectSeq(@, LAMBDA task : ~NameMatches(task_name, task.name))]]
        deleted_count == SeqSum([i \in 1..Len(projects) |-> Len(projects[i].tasks) - Len(remaining[i].tasks)])
        affected_projects == AffectedProjects(projects, remaining)
    IN  IF projects = <<>>
        THEN Return(Begin(st),
                    [action |-> "delete_tasks_by_name", status |-> "error",
                     message |-> Msg("No projects found to search for tasks.", <<>>)])
        ELSE Return(_update_state(Begin(st), "projects", remaining),
                    [action |-> "delete_tasks_by_name", status |-> "success", task_name |-> task_name,
                     deleted_count |-> deleted_count, affected_projects |-> affected_projects,
                     message |-> Msg("Deleted {deleted_count} task(s) containing '{task_name}' from project(s): {affected_list}",
                                     <<deleted_count, task_name, affected_projects>>)])

\* delete_tasks_by_name comparing the names as they are written, without lower()
delete_tasks_by_name_case_sensitive(st, task_name) ==
    LET projects == st.projects
        remaining == [i \in 1..Len(projects) |->
                        [projects[i] EXCEPT !.tasks =
                            SelectSeq(@, LAMBDA task : ~Contains(task_name, task.name))]]
        deleted_count == SeqSum([i \in 1..Len(projects) |-> Len(projects[i].tasks) - Len(remaining[i].tasks)])
        affected_projects == AffectedProjects(projects, remaining)
    IN  IF projects = <<>>
        THEN Return(Begin(st),
                    [action |-> "delete_tasks_by_name", status |-> "error",
                     message |-> Msg("No projects found to search for tasks.", <<>>)])
        ELSE IF deleted_count = 0
        THEN Return(_update_state(Begin(st), "projects", remaining),
                    [action |-> "delete_tasks_by_name", status |-> "not_found", task_name |-> task_name,
                     message |-> Msg("No tasks found with name containing '{task_name}'.", <<task_name>>)])
        ELSE Return(_update_state(Begin(st), "projects", remaining),
                    [action |-> "delete_tasks_by_name", status |-> "success", task_name |-> task_name,
                     deleted_count |-> deleted_count, affected_projects |-> affected_projects,
                     message |-> Msg("Deleted {deleted_count} task(s) containing '{task_name}' from project(s): {affected_list}",
                                     <<deleted_count, task_name, affected_projects>>)])

delete_tasks_by_name(st, task_name) ==
    LET projects == st.projects
        remaining == [i \in 1..Len(projects) |->
                        [projects[i] EXCEPT !.tasks =
                            SelectSeq(@, LAMBDA task : ~NameMatches(task_name, task.name))]]
        deleted_count == SeqSum([i \in 1..Len(projects) |-> Len(projects[i].tasks) - Len(remaining[i].tasks)])
        affected_projects == AffectedProjects(projects, remaining)
    IN  IF projects = <<>>
        THEN Return(Begin(st),
                    [action |-> "delete_tasks_by_name", status |-> "error",
                     message |-> Msg("No projects found to search for tasks.", <<>>)])
        ELSE IF deleted_count = 0
        THEN Return(_update_state(Begin(st), "projects", remaining),
                    [action |-> "delete_tasks_by_name", status |-> "not_found", task_name |-> task_name,
                     message |-> Msg("No tasks found with name containing '{task_name}'.", <<task_name>>)])
        ELSE Return(_update_state(Begin(st), "projects", remaining),
                    [action |-> "delete_tasks_by_name", status |-> "success", task_name |-> task_name,
                     deleted_count |-> deleted_count, affected_projects |-> affected_projects,
                     message |-> Msg("Deleted {deleted_count} task(s) containing '{task_name}' from project(s): {affected_list}",
                                     <<deleted_count, task_name, affected_projects>>)])

\* remove_completed_tasks without the branch for removed_count == 0
remove_completed_tasks_always_success(st) ==
    LET projects == st.projects
        remaining == [i \in 1..Len(projects) |->
                        [projects[i] EXCEPT !.tasks = SelectSeq(@, LAMBDA task : task.status # Completed)]]
        removed_count == SeqSum([i \in 1..Len(projects) |-> Len(projects[i].tasks) - Len(remaining[i].tasks)])
        affected_projects == AffectedProjects(projects, remaining)
    IN  IF projects = <<>>
        THEN Return(Begin(st),
                    [action |-> "remove_completed_tasks", status |-> "error",
                     message |-> Msg("No projects found.", <<>>)])
        ELSE Return(_update_state(Begin(st), "projects", remaining),
                    [action |-> "remove_completed_tasks", status |-> "success",
                     removed_count |-> removed_count, affected_projects |-> affected_projects,
                     message |-> Msg("Removed {removed_count} completed task(s) from project(s): {affected_list}",
                                     <<removed_count, affected_projects>>)])

\* remove_completed_tasks with the test "completed" in status in the place of equality
remove_completed_tasks_containing(st) ==
    LET projects == st.projects
        remaining == [i \in 1..Len(projects) |->
                        [projects[i] EXCEPT !.tasks = SelectSeq(@, LAMBDA task : ~Contains(Completed, task.status))]]
        removed_count == SeqSum([i \in 1..Len(projects) |-> Len(projects[i].tasks) - Len(remaining[i].tasks)])
        affected_projects == AffectedProjects(projects, remaining)
    IN  IF projects = <<>>
        THEN Return(Begin(st),
                    [action |-> "remove_completed_tasks", status |-> "error",
                     message |-> Msg("No projects found.", <<>>)])
        ELSE IF removed_count = 0
        THEN Return(_update_state(Begin(st), "projects", remaining),
                    [action |-> "remove_completed_tasks", status |-> "no_tasks",
                     message |-> Msg("No completed tasks found to remove.", <<>>)])
        ELSE Return(_update_state(Begin(st), "projects", remaining),
                    [action |-> "remove_completed_tasks", status |-> "success",
                     removed_count |-> removed_count, affected_projects |-> affected_projects,
                     message |-> Msg("Removed {removed_count} completed task(s) from project(s): {affected_list}",
                                     <<removed_count, affected_projects>>)])

remove_completed_tasks(st) ==
    LET projects == st.projects
        remaining == [i \in 1..Len(projects) |->
                        [projects[i] EXCEPT !.tasks = SelectSeq(@, LAMBDA task : task.status # Completed)]]
        removed_count == SeqSum([i \in 1..Len(projects) |-> Len(projects[i].tasks) - Len(remaining[i].tasks)])
        affected_projects == AffectedProjects(projects, remaining)
    IN  IF projects = <<>>
        THEN Return(Begin(st),
                    [action |-> "remove_completed_tasks", status |-> "error",
                     message |-> Msg("No projects found.", <<>>)])
        ELSE IF removed_count = 0
        THEN Return(_update_state(Begin(st), "projects", remaining),
                    [action |-> "remove_completed_tasks", status |-> "no_tasks",
                     message |-> Msg("No completed tasks found to remove.", <<>>)])
        ELSE Return(_update_state(Begin(st), "projects", remaining),
                    [action |-> "remove_completed_tasks", status |-> "success",
                     removed_count |-> removed_count, affected_projects |-> affected_projects,
                     message |-> Msg("Removed {removed_count} completed task(s) from project(s): {affected_list}",
                                     <<removed_count, affected_projects>>)])

-----------------------------------------------------------------------------
(* The minimal ProjectManagementAgent of new_agent.py: its six commands.   *)

\* new_agent.py's add_project without the strptime test
new_agent_add_project_unvalidated(st, name, description, due_date) ==
    LET desc == IF description = None THEN NoDescription ELSE description
        due == IF due_date = None THEN DefaultDueDate ELSE due_date
        new_project == [name |-> name, description |-> desc, due_date |-> due,
                        tasks |-> <<>>, created_at |-> Today]
    IN  Return(_update_state(Begin(st), "projects", Append(st.projects, new_project)),
               [action |-> "add_project", project |-> name,
                message |-> Msg("Added project: {name} with due date {due_date}", <<name, due>>)])

new_agent_add_project(st, name, description, due_date) ==
    LET desc == IF description = None THEN NoDescription ELSE description
        due == IF due_date = None THEN DefaultDueDate ELSE due_date
        new_project == [name |-> name, description |-> desc, due_date |-> due,
                        tasks |-> <<>>, created_at |-> Today]
    IN  IF due # EmptyString /\ ~StrptimeYmd(due)
        THEN Return(Begin(st),
                    [action |-> "add_project", status |-> "error",
                     message |-> Msg("Invalid date format: {due_date}. Please use YYYY-MM-DD format.", <<due>>)])
        ELSE Return(_update_state(Begin(st), "projects", Append(st.projects, new_project)),
                    [action |-> "add_project", project |-> name,
                     message |-> Msg("Added project: {name} with due date {due_date}", <<name, due>>)])

new_agent_view_projects(st) ==
    Return(Begin(st), [action |-> "view_projects", projects |-> st.projects, count |-> Len(st.projects)])

\* email has no default here
new_agent_add_team_member(st, name, role, email) ==
    LET new_member == [name |-> name, role |-> role, email |-> email, created_at |-> Today]
    IN  Return(_update_state(Begin(st), "team_members", Append(st.team_members, new_member)),
               [action |-> "add_team_member", member |-> name,
                message |-> Msg("Added team member: {name} with role {role}", <<name, role>>)])

new_agent_view_team_members(st) ==
    Return(Begin(st),
           [action |-> "view_team_members", team_members |-> st.team_members, count |-> Len(st.team_members)])

new_agent_add_task(st, project_index, name, assigned_to, description, due_date, priority) ==
    LET projects == st.projects
        zero_based_index == project_index - 1
        new_task == [name |-> name,
                     description |-> IF description = None THEN NoDescription ELSE description,
                     assigned_to |-> IF assigned_to = None THEN Unassigned ELSE assigned_to,
                     due_date |-> IF due_date = None THEN DefaultDueDate ELSE due_date,
                     priority |-> IF priority = None THEN Medium ELSE priority,
                     status |-> Pending,
                     created_at |-> Today]
    IN  IF zero_based_index < 0 \/ zero_based_index >= Len(projects)
        THEN Return(Begin(st),
                    [action |-> "add_task", status |-> "error",
                     message |-> Msg("Invalid project index: {project_index}. Please choose between 1 and {len(projects)}.",
                                     <<project_index, Len(projects)>>)])
        ELSE Return(_update_state(Begin(st), "projects",
                                  [projects EXCEPT ![project_index].tasks = Append(@, new_task)]),
                    [action |-> "add_task", task |-> name, project |-> projects[project_index].name,
                     message |-> Msg("Added task '{name}' to project '{project}'", <<name, projects[project_index].name>>)])

new_agent_update_user_name(st, name) ==
    Return(_update_state(Begin(st), "user_name", name),
           [action |-> "update_user_name", message |-> Msg("Updated user name to: {name}", <<name>>)])

\* the names execute_function tests for
RegisteredFunctions ==
    {"add_project", "view_projects", "add_team_member", "view_team_members", "add_task",
     "update_user_name", "update_team_member", "delete_team_member",
     "find_team_member_by_name", "find_project_by_name"}

\* the parameters of the methods execute_function calls with **args
Parameters ==
    [add_project |-> {"name", "description", "due_date"},
     add_team_member |-> {"name", "role", "email"},
     add_task |-> {"project_index", "name", "assigned_to", "description", "due_date", "priority"},
     update_user_name |-> {"name"},
     update_team_member |-> {"index", "name", "role", "email"},
     delete_team_member |-> {"index"},
     find_team_member_by_name |-> {"name"},
     find_project_by_name |-> {"name"}]

\* those of them that have no default
RequiredParameters ==
    [add_project |-> {"name"},
     add_team_member |-> {"name", "role"},
     add_task |-> {"project_index", "name"},
     update_user_name |-> {"name"},
     update_team_member |-> {"index"},
     delete_team_member |-> {"index"},
     find_team_member_by_name |-> {"name"},
     find_project_by_name |-> {"name"}]

\* method(**args) binds: every key is a parameter and no required parameter is missing
Binds(function_name, args) ==
    /\ RequiredParameters[function_name] \subseteq DOMAIN args
    /\ DOMAIN args \subseteq Parameters[function_name]

\* the value a parameter with the default None takes
Arg(args, key) == IF key \in DOMAIN args THEN args[key] ELSE None

\* an exception leaves the method: nothing is returned
Raise(o, exception) == Return(o, [raised |-> exception])

\* execute_function: args is the dictionary it spreads onto the method
execute_function(st, function_name, args) ==
    IF function_name \in DOMAIN Parameters /\ ~Binds(function_name, args)
    THEN Raise(Begin(st), "TypeError")
    ELSE IF function_name = "add_project"
    THEN add_project(st, args.name, Arg(args, "description"), Arg(args, "due_date"))
    ELSE IF function_name = "view_projects"
    THEN view_projects(st)
    ELSE IF function_name = "add_team_member"
    THEN add_team_member(st, args.name, args.role, Arg(args, "email"))
    ELSE IF function_name = "view_team_members"
    THEN view_team_members(st)
    ELSE IF function_name = "add_task"
    THEN add_task(st, args.project_index, args.name, Arg(args, "assigned_to"),
                  Arg(args, "description"), Arg(args, "due_date"), Arg(args, "priority"))
    ELSE IF function_name = "update_user_name"
    THEN update_user_name(st, args.name)
    ELSE IF function_name = "update_team_member"
    THEN update_team_member(st, args.index, Arg(args, "name"), Arg(args, "role"), Arg(args, "email"))
    ELSE IF function_name = "delete_team_member"
    THEN delete_team_member(st, args.index)
    ELSE IF function_name = "find_team_member_by_name"
    THEN find_team_member_by_name(st, args.name)
    ELSE IF function_name = "find_project_by_name"
    THEN find_project_by_name(st, args.name)
    ELSE Return(Begin(st), [error |-> Msg("Unknown function: {function_name}", <<function_name>>)])

\* get_python_functions: the methods the agent hands to the model
ExposedFunctions ==
    {"add_project", "view_projects", "delete_project", "delete_project_by_name",
     "clear_all_projects", "add_team_member", "view_team_members", "update_team_member",
     "delete_team_member", "clear_all_team_members", "add_task", "add_task_by_project_name",
     "add_task_smart", "delete_tasks_by_name", "update_task_status", "remove_completed_tasks",
     "find_project_by_name", "find_team_member_by_name", "clear_all_data", "update_user_name"}

-----------------------------------------------------------------------------
(* The program: main_async starts a run, the driver calls the agent's      *)
(* commands one at a time, and the run ends.                               *)

\* get_or_create_session without the lookup: a new session at every start
get_or_create_session_always_new(rows, app_name, user_id, initial_state, now) ==
    {[rows |-> InsertSession(rows, app_name, user_id, initial_state, now),
      info |-> [id |-> NewSessionId(rows), state |-> initial_state, is_new |-> TRUE]]}

\* get_or_create_session: the outcomes it may have (the rows after it, what it returns)
get_or_create_session(rows, app_name, user_id, initial_state, now) ==
    IF SessionsOf(rows, app_name, user_id) # {}
    THEN {[rows |-> rows,
           info |-> [id |-> rows[i].id, state |-> Loads(rows[i].state), is_new |-> FALSE]] :
            i \in NewestSessions(rows, app_name, user_id)}
    ELSE {[rows |-> InsertSession(rows, app_name, user_id, initial_state, now),
           info |-> [id |-> NewSessionId(rows), state |-> initial_state, is_new |-> TRUE]]}

Init ==
    /\ store = <<>>
    /\ clock = 0
    /\ agent = NoAgent
    /\ peer = NoAgent
    /\ call = NoCall
    /\ ret = NoRet
    /\ written = 0

\* the times the database clock may show at the next call: seconds may have passed
Later == {now \in clock..(clock + 1) : now <= MaxClock}

\* main_async up to the conversation loop
main_async ==
    /\ ~agent.live
    /\ \E now \in Later :
        /\ clock' = now
        /\ \E o \in get_or_create_session(store, APP_NAME, USER_ID, InitialState, now) :
            /\ store' = o.rows
            /\ agent' = [state |-> o.info.state, session_id |-> o.info.id,
                         conversation_history |-> <<>>, live |-> TRUE]
            /\ ret' = o.info
    /\ call' = [op |-> "get_or_create_session", args |-> [app_name |-> APP_NAME, user_id |-> USER_ID]]
    /\ written' = 0
    /\ UNCHANGED peer

\* the user types exit: the process ends; the record keeps what its agent last held
Exit ==
    /\ agent.live
    /\ agent' = [agent EXCEPT !.live = FALSE]
    /\ call' = [op |-> "exit", args |-> <<>>]
    /\ ret' = NoRet
    /\ written' = 0
    /\ UNCHANGED <<store, clock, peer>>

\* the loop waits for the user's next line
AtPrompt == agent.live /\ call = NoCall

\* the answer has been printed and the loop is back at input("You: "): no
\* call is in progress and no result is at hand
Prompt ==
    /\ agent.live
    /\ call # NoCall
    /\ call' = NoCall
    /\ ret' = NoRet
    /\ written' = 0
    /\ UNCHANGED <<store, clock, agent, peer>>

\* the process dies inside clear_all_data, between its two calls of _update_state
\* (the only command that stores more than once): the table keeps what the
\* calls made so far have written
Crash_clear_all_data ==
    /\ AtPrompt
    /\ \E o \in {clear_all_data(agent.state)} :
        \E k \in 1..(Len(o.writes) - 1), now \in Later :
            /\ clock' = now
            /\ store' = Persist(store, agent.session_id, SubSeq(o.writes, 1, k), now)
            /\ agent' = [agent EXCEPT !.state = o.writes[k], !.live = FALSE]
            /\ written' = k
    /\ call' = [op |-> "crash", args |-> [during |-> "clear_all_data"]]
    /\ ret' = NoRet
    /\ UNCHANGED peer

\* the number of projects, tasks and team members of a state
EntityCount(st) == Len(st.projects) + TaskCount(st) + Len(st.team_members)

WithinBounds(st) ==
    /\ Len(st.projects) <= MaxProjects
    /\ TaskCount(st) <= MaxTasks
    /\ Len(st.team_members) <= MaxMembers
    /\ EntityCount(st) <= MaxEntities

\* one command typed at the prompt: o is what its handler computes from self.state
Command(op, args, o) ==
    /\ WithinBounds(o.state)
    /\ agent' = [agent EXCEPT !.state = o.state]
    /\ \E now \in Later :
        /\ clock' = now
        /\ store' = Persist(store, agent.session_id, o.writes, now)
    /\ call' = [op |-> op, args |-> args]
    /\ ret' = o.result
    /\ written' = Len(o.writes)
    /\ UNCHANGED peer

Call_add_project ==
    /\ AtPrompt
    /\ \E a \in AddProjectArgs :
        \E o \in {add_project(agent.state, a.name, a.description, a.due_date)} :
            Command("add_project", a, o)

Call_view_projects ==
    /\ AtPrompt
    /\ \E o \in {view_projects(agent.state)} : Command("view_projects", <<>>, o)

Call_add_team_member ==
    /\ AtPrompt
    /\ \E a \in AddTeamMemberArgs :
        \E o \in {add_team_member(agent.state, a.name, a.role, a.email)} :
            Command("add_team_member", a, o)

Call_view_team_members ==
    /\ AtPrompt
    /\ \E o \in {view_team_members(agent.state)} : Command("view_team_members", <<>>, o)

Call_add_task ==
    /\ AtPrompt
    /\ \E a \in AddTaskArgs :
        \E o \in {add_task(agent.state, a.project_index, a.name, a.assigned_to, a.description,
                           a.due_date, a.priority)} :
            Command("add_task", a, o)

Call_update_user_name ==
    /\ AtPrompt
    /\ \E name \in UserNames :
        \E o \in {update_user_name(agent.state, name)} :
            Command("update_user_name", [name |-> name], o)

Call_update_team_member ==
    /\ AtPrompt
    /\ \E a \in UpdateTeamMemberArgs :
        \E o \in {update_team_member(agent.state, a.index, a.name, a.role, a.email)} :
            Command("update_team_member", a, o)

Call_delete_team_member ==
    /\ AtPrompt
    /\ \E index \in Indices :
        \E o \in {delete_team_member(agent.state, index)} :
            Command("delete_team_member", [index |-> index], o)

Call_find_team_member_by_name ==
    /\ AtPrompt
    /\ \E name \in MemberQueries :
        \E o \in {find_team_member_by_name(agent.state, name)} :
            Command("find_team_member_by_name", [name |-> name], o)

Call_find_project_by_name ==
    /\ AtPrompt
    /\ \E name \in ProjectQueries :
        \E o \in {find_project_by_name(agent.state, name)} :
            Command("find_project_by_name", [name |-> name], o)

Call_add_task_by_project_name ==
    /\ AtPrompt
    /\ \E a \in AddTaskByProjectNameArgs :
        \E o \in {add_task_by_project_name(agent.state, a.project_name, a.task_name, None, None, None, None)} :
            Command("add_task_by_project_name", a, o)

Call_add_task_smart ==
    /\ AtPrompt
    /\ \E a \in AddTaskSmartArgs :
        \E o \in {add_task_smart(agent.state, a.task_description, a.project_hint)} :
            Command("add_task_smart", a, o)

Call_delete_project ==
    /\ AtPrompt
    /\ \E index \in Indices :
        \E o \in {delete_project(agent.state, index)} :
            Command("delete_project", [index |-> index], o)

Call_delete_project_by_name ==
    /\ AtPrompt
    /\ \E name \in ProjectQueries :
        \E o \in {delete_project_by_name(agent.state, name)} :
            Command("delete_project_by_name", [name |-> name], o)

Call_clear_all_projects ==
    /\ AtPrompt
    /\ \E o \in {clear_all_projects(agent.state)} : Command("clear_all_projects", <<>>, o)

Call_clear_all_team_members ==
    /\ AtPrompt
    /\ \E o \in {clear_all_team_members(agent.state)} : Command("clear_all_team_members", <<>>, o)

Call_clear_all_data ==
    /\ AtPrompt
    /\ \E o \in {clear_all_data(agent.state)} : Command("clear_all_data", <<>>, o)

Call_update_task_status ==
    /\ AtPrompt
    /\ \E a \in UpdateTaskStatusArgs :
        \E o \in {update_task_status(agent.state, a.project_name, a.task_name, a.new_status)} :
            Command("update_task_status", a, o)

Call_delete_tasks_by_name ==
    /\ AtPrompt
    /\ \E task_name \in TaskQueries :
        \E o \in {delete_tasks_by_name(agent.state, task_name)} :
            Command("delete_tasks_by_name", [task_name |-> task_name], o)

Call_remove_completed_tasks ==
    /\ AtPrompt
    /\ \E o \in {remove_completed_tasks(agent.state)} : Command("remove_completed_tasks", <<>>, o)

Call_execute_function ==
    /\ AtPrompt
    /\ \E c \in ExecuteFunctionCalls :
        \E o \in {execute_function(agent.state, c.function_name, c.args)} :
            Command("execute_function", c, o)

Next ==
    \/ main_async
    \/ Exit
    \/ Prompt
    \/ Call_add_project
    \/ Call_view_projects
    \/ Call_add_team_member
    \/ Call_view_team_members
    \/ Call_add_task
    \/ Call_update_user_name
    \/ Call_update_team_member
    \/ Call_delete_team_member
    \/ Call_find_team_member_by_name
    \/ Call_find_project_by_name
    \/ Call_add_task_by_project_name
    \/ Call_add_task_smart
    \/ Call_delete_project
    \/ Call_delete_project_by_name
    \/ Call_clear_all_projects
    \/ Call_clear_all_team_members
    \/ Call_clear_all_data
    \/ Call_update_task_status
    \/ Call_delete_tasks_by_name
    \/ Call_remove_completed_tasks
    \/ Call_execute_function
    \/ Crash_clear_all_data

Spec == Init /\ [][Next]_vars

-----------------------------------------------------------------------------
(* The sessions table on its own: the SessionManager called by the two     *)
(* programs that open the database, main.py and streamlit_app.py, each     *)
(* under its own user_id.                                                  *)

\* (app_name, user_id) of main.py and of streamlit_app.py
Identities ==
    { [app_name |-> APP_NAME, user_id |-> USER_ID],
      [app_name |-> APP_NAME, user_id |-> "streamlit_user"] }

\* states an agent hands to update_session_state
StoredStates ==
    { InitialState,
      update_user_name(InitialState, Ali).state,
      add_project(InitialState, Alpha, None, None).state }

StoreLater == {now \in clock..(clock + 1) : now <= MaxStoreClock}

Call_get_or_create_session ==
    \E who \in Identities, now \in StoreLater :
        \E o \in get_or_create_session(store, who.app_name, who.user_id, InitialState, now) :
            /\ store' = o.rows
            /\ clock' = now
            /\ call' = [op |-> "get_or_create_session", args |-> who]
            /\ ret' = o.info
            /\ written' = 0
            /\ UNCHANGED <<agent, peer>>

Call_update_session_state ==
    \* the ids of the rows there may be, and an id of no row
    \E session_id \in 1..(Cardinality(Identities) + 1), state \in StoredStates, now \in StoreLater :
        /\ store' = update_session_state(store, session_id, state, now)
        /\ clock' = now
        /\ call' = [op |-> "update_session_state", args |-> [session_id |-> session_id, state |-> state]]
        /\ ret' = NoRet
        /\ written' = 1
        /\ UNCHANGED <<agent, peer>>

StoreNext ==
    \/ Call_get_or_create_session
    \/ Call_update_session_state

StoreSpec == Init /\ [][StoreNext]_vars

-----------------------------------------------------------------------------
(* Two browser sessions of streamlit_app.py: each makes its own agent with *)
(* initialize_agent, from the row of the one identity they share, and has  *)
(* it run commands; the sessions take turns.                               *)

\* initialize_agent: the agent it makes, with the rows after get_or_create_session
initialize_agent(rows, now) ==
    {[rows |-> o.rows, info |-> o.info,
      agent |-> [state |-> o.info.state, session_id |-> o.info.id,
                 conversation_history |-> <<>>, live |-> TRUE]] :
        o \in get_or_create_session(rows, APP_NAME, "streamlit_user", InitialState, now)}

\* the commands a browser session has its agent run, each with what its handler computes
BrowserCommands(st) ==
    { [op |-> "add_project", args |-> a, o |-> add_project(st, a.name, a.description, a.due_date)] :
        a \in {[name |-> Alpha, description |-> None, due_date |-> None]} }
    \cup
    { [op |-> "add_team_member", args |-> a, o |-> add_team_member(st, a.name, a.role, a.email)] :
        a \in {[name |-> JimHalpert, role |-> SalesRole, email |-> None]} }

Browser_initialize_agent ==
    \E o \in initialize_agent(store, clock) :
        /\ \/ ~agent.live /\ agent' = o.agent /\ UNCHANGED peer
           \/ ~peer.live /\ peer' = o.agent /\ UNCHANGED agent
        /\ store' = o.rows
        /\ call' = [op |-> "initialize_agent", args |-> <<>>]
        /\ ret' = o.info
        /\ written' = 0
        /\ UNCHANGED clock

Browser_command ==
    \E self \in {agent, peer} :
        /\ self.live
        /\ \E c \in BrowserCommands(self.state) :
            /\ WithinBounds(c.o.state)
            /\ \/ self = agent /\ agent' = [agent EXCEPT !.state = c.o.state] /\ UNCHANGED peer
               \/ self = peer /\ peer' = [peer EXCEPT !.state = c.o.state] /\ UNCHANGED agent
            /\ store' = Persist(store, self.session_id, c.o.writes, clock)
            /\ call' = [op |-> c.op, args |-> c.args]
            /\ ret' = c.o.result
            /\ written' = Len(c.o.writes)
            /\ UNCHANGED clock

BrowserNext ==
    \/ Browser_initialize_agent
    \/ Browser_command

BrowserSpec == Init /\ [][BrowserNext]_vars

-----------------------------------------------------------------------------
(* The conversation loop of main.py: every message of the user goes to     *)
(* process_message, during which the model may call one of the agent's     *)
(* commands, and the write to the sessions table may fail.  Of a message   *)
(* the history keeps the role here; its text plays no part.                *)

\* the number of messages process_message cuts the history back to
HistoryLimit == 20

\* self.conversation_history[-20:] when it has more than 20 messages
Trimmed(history) ==
    IF Len(history) > HistoryLimit
    THEN SubSeq(history, Len(history) - HistoryLimit + 1, Len(history))
    ELSE history

\* what the model does with a message: it answers at once or calls a command first
FunctionCalls(st) ==
    {[op |-> "none", args |-> <<>>, o |-> Return(Begin(st), <<>>)]} \cup BrowserCommands(st)

\* process_message; "fails" is update_session_state raising, which leaves the
\* table as it was, after _update_state has assigned self.state[key]
process_message ==
    /\ agent.live
    /\ \E c \in FunctionCalls(agent.state), storage \in {"ok", "fails"} :
        LET asked == Trimmed(Append(agent.conversation_history, [role |-> "user"]))
            writes == IF storage = "ok" THEN c.o.writes ELSE <<>>
        IN  /\ storage = "fails" => c.o.writes # <<>>
            /\ WithinBounds(c.o.state)
            /\ agent' = [agent EXCEPT !.state = c.o.state,
                                      !.conversation_history = Append(asked, [role |-> "assistant"])]
            /\ store' = Persist(store, agent.session_id, writes, clock)
            /\ call' = [op |-> "process_message", args |-> [function_call |-> c.op, storage |-> storage]]
            /\ ret' = IF storage = "ok"
                      THEN Msg("{response.text}", <<>>)
                      ELSE Msg("Sorry, I encountered an error: {str(e)}", <<>>)
            /\ written' = Len(writes)
    /\ UNCHANGED <<peer, clock>>

clear_conversation_history ==
    /\ agent.live
    /\ agent' = [agent EXCEPT !.conversation_history = <<>>]
    /\ call' = [op |-> "clear_conversation_history", args |-> <<>>]
    /\ ret' = [action |-> "clear_conversation_history",
               message |-> Msg("Conversation history cleared. Starting fresh!", <<>>)]
    /\ written' = 0
    /\ UNCHANGED <<store, peer, clock>>

ChatNext ==
    \/ main_async
    \/ process_message
    \/ clear_conversation_history
    \/ Exit

ChatSpec == Init /\ [][ChatNext]_vars

-----------------------------------------------------------------------------
(* Properties of the session store and of the agent's commands.           *)

\* the commands that change the state
MutatingOps ==
    {"add_project", "add_team_member", "add_task", "update_team_member", "delete_team_member",
     "delete_project", "update_task_status", "delete_tasks_by_name", "remove_completed_tasks",
     "clear_all_projects", "clear_all_team_members", "clear_all_data", "update_user_name"}

\* a result that reports success: status "success", or no status at all
Succeeded(r) == StatusOf(r) \in {Absent, "success"}

\* the commands that take a 1-based index, the index they were called with and
\* the collection it addresses
IndexOps == {"add_task", "update_team_member", "delete_team_member", "delete_project"}
IndexArg(c) == IF c.op = "add_task" THEN c.args.project_index ELSE c.args.index
Addressed(c, st) == IF c.op \in {"add_task", "delete_project"} THEN st.projects ELSE st.team_members
OutOfRange(c, st) == IndexArg(c) < 1 \/ IndexArg(c) > Len(Addressed(c, st))

\* C1: write-through. Whenever the last command was a mutating one and it
\* returned a success result, the state stored in the record of the agent's
\* session_id equals the agent's in-memory state.
C1_WriteThrough ==
    (agent.live /\ call.op \in MutatingOps /\ Succeeded(ret))
        => StoredState(store, agent.session_id) = agent.state

\* a task has just been added with success
C1_Witness ==
    /\ agent.live
    /\ call.op = "add_task"
    /\ Succeeded(ret)
    /\ TaskCount(agent.state) > 0
    /\ StoredState(store, agent.session_id) = agent.state

\* C2: an index-taking command called with an index below 1 or above the count
\* of the collection it addresses returns status "error" and leaves the state
\* in memory and the sessions table as they were.
C2_IndexOutOfRange ==
    [][(call'.op \in IndexOps /\ OutOfRange(call', agent.state))
        => /\ StatusOf(ret') = "error"
           /\ agent'.state = agent.state
           /\ store' = store]_vars

\* delete_project was called with an index above the count of a non-empty list
C2_Witness ==
    /\ call.op = "delete_project"
    /\ agent.state.projects # <<>>
    /\ call.args.index > Len(agent.state.projects)
    /\ StatusOf(ret) = "error"

\* the state but for its projects, and a project but for its tasks
Others(st) == [user_name |-> st.user_name, team_members |-> st.team_members]
ButTasks(p) == [name |-> p.name, description |-> p.description, due_date |-> p.due_date,
                created_at |-> p.created_at]

\* add_task(i, name) on old gives new: one pending task more, at the end of project i
AddsTaskTo(old, new, i, name) ==
    /\ Others(new) = Others(old)
    /\ Len(new.projects) = Len(old.projects)
    /\ \A k \in 1..Len(old.projects) : k # i => new.projects[k] = old.projects[k]
    /\ ButTasks(new.projects[i]) = ButTasks(old.projects[i])
    /\ Len(new.projects[i].tasks) = Len(old.projects[i].tasks) + 1
    /\ \A k \in 1..Len(old.projects[i].tasks) : new.projects[i].tasks[k] = old.projects[i].tasks[k]
    /\ new.projects[i].tasks[Len(new.projects[i].tasks)].status = Pending
    /\ new.projects[i].tasks[Len(new.projects[i].tasks)].name = name

\* update_team_member(i, ...) on old gives new: only member i may differ
UpdatesMember(old, new, i) ==
    /\ new.user_name = old.user_name
    /\ new.projects = old.projects
    /\ Len(new.team_members) = Len(old.team_members)
    /\ \A k \in 1..Len(old.team_members) : k # i => new.team_members[k] = old.team_members[k]

\* delete_team_member(i) on old gives new: member i is gone, the others keep their order
DeletesMember(old, new, i) ==
    /\ new.user_name = old.user_name
    /\ new.projects = old.projects
    /\ Len(new.team_members) = Len(old.team_members) - 1
    /\ \A k \in 1..Len(new.team_members) :
        new.team_members[k] = old.team_members[IF k < i THEN k ELSE k + 1]

\* C3: with a valid index i, add_task appends one pending task to the i-th
\* project and changes nothing else; update_team_member and delete_team_member
\* act on the i-th member only.
C3_ValidIndex ==
    [][(call'.op \in IndexOps /\ ~OutOfRange(call', agent.state))
        => /\ call'.op = "add_task"
                => AddsTaskTo(agent.state, agent'.state, call'.args.project_index, call'.args.name)
           /\ call'.op = "update_team_member"
                => UpdatesMember(agent.state, agent'.state, call'.args.index)
           /\ call'.op = "delete_team_member"
                => DeletesMember(agent.state, agent'.state, call'.args.index)]_vars

\* a task was added to the second of two projects
C3_Witness ==
    /\ call.op = "add_task"
    /\ call.args.project_index = 2
    /\ Succeeded(ret)
    /\ Len(agent.state.projects) = 2
    /\ agent.state.projects[1].tasks = <<>>
    /\ Len(agent.state.projects[2].tasks) = 1

\* the 1-based positions of the items whose name contains the query, case-insensitively
Matching(items, query) == {i \in 1..Len(items) : NameMatches(query, items[i].name)}

\* the name-based commands that change projects, and the project query of a call:
\* for add_task_smart the project name its parsing arrives at
NameOps == {"add_task_by_project_name", "delete_project_by_name", "add_task_smart"}
QueryArg(c) ==
    IF c.op = "add_task_by_project_name" THEN c.args.project_name
    ELSE IF c.op = "delete_project_by_name" THEN c.args.name
    ELSE Parsed(c.args.task_description, c.args.project_hint).project_name
HasQuery(c) == QueryArg(c) \notin {None, EmptyString} \/ c.op # "add_task_smart"

\* listing names every project of the set with its 1-based index, and nothing else
Enumerates(listing, projects, indices) ==
    /\ Len(listing) = Cardinality(indices)
    /\ {listing[k].index : k \in 1..Len(listing)} = indices
    /\ \A k \in 1..Len(listing) : listing[k].name = projects[listing[k].index].name

\* C4: when the project query of a name-based command matches more than one
\* project, the command returns an error that lists every matching project
\* with its 1-based index, and it changes nothing in memory or in the table.
C4_NoAutoResolve ==
    [][(/\ call'.op \in NameOps
        /\ HasQuery(call')
        /\ Cardinality(Matching(agent.state.projects, QueryArg(call'))) > 1)
        => /\ StatusOf(ret') = "error"
           /\ Len(ret'.message.args) = 2
           /\ Enumerates(ret'.message.args[2], agent.state.projects,
                         Matching(agent.state.projects, QueryArg(call')))
           /\ agent'.state = agent.state
           /\ store' = store]_vars

\* add_task_smart arrived at a project name that two projects match
C4_Witness ==
    /\ call.op = "add_task_smart"
    /\ HasQuery(call)
    /\ Cardinality(Matching(agent.state.projects, QueryArg(call))) = 2
    /\ StatusOf(ret) = "error"
    /\ TaskCount(agent.state) = 0

\* what find_<kind>_by_name returned for the query, against the items
TriState(items, query, r, kind) ==
    LET indices == Matching(items, query)
    IN  /\ indices = {} => StatusOf(r) = "not_found"
        /\ Cardinality(indices) = 1
            => /\ StatusOf(r) = "found"
               /\ r.match.index \in indices
               /\ r.match[kind] = items[r.match.index]
        /\ Cardinality(indices) > 1
            => /\ StatusOf(r) = "multiple_matches"
               /\ Len(r.matches) = Cardinality(indices)
               /\ \A k \in 1..Len(r.matches) :
                    /\ r.matches[k].index \in indices
                    /\ r.matches[k][kind] = items[r.matches[k].index]
                    /\ \A j \in 1..(k - 1) : r.matches[j].index < r.matches[k].index

\* the collection of the example: Website Redesign, Website Launch, Mobile App
ExampleState ==
    add_project(add_project(add_project(InitialState, WebsiteRedesign, None, None).state,
                            WebsiteLaunch, None, None).state,
                MobileApp, None, None).state

ExampleHolds ==
    /\ StatusOf(find_project_by_name(ExampleState, Q_web).result) = "multiple_matches"
    /\ [k \in 1..2 |-> find_project_by_name(ExampleState, Q_web).result.matches[k].index] = <<1, 2>>
    /\ StatusOf(find_project_by_name(ExampleState, Q_mobile).result) = "found"
    /\ find_project_by_name(ExampleState, Q_mobile).result.match.index = 3
    /\ StatusOf(find_project_by_name(ExampleState, Q_zzz).result) = "not_found"

\* C5: find_project_by_name and find_team_member_by_name return not_found when
\* no name contains the query (case-insensitively), found with the item and its
\* 1-based index when one does, and multiple_matches with all of them in
\* ascending order when several do; so they do on the example collection.
C5_TriState ==
    /\ call.op = "find_project_by_name"
        => TriState(agent.state.projects, call.args.name, ret, "project")
    /\ call.op = "find_team_member_by_name"
        => TriState(agent.state.team_members, call.args.name, ret, "member")
    /\ ExampleHolds

\* a query was found to match both of two team members
C5_Witness ==
    /\ call.op = "find_team_member_by_name"
    /\ StatusOf(ret) = "multiple_matches"
    /\ Len(ret.matches) = 2
    /\ ret.matches[1].index = 1
    /\ ret.matches[2].index = 2

\* the one element of a set of one
TheOne(indices) == CHOOSE i \in indices : TRUE

\* C6: add_task_by_project_name and delete_project_by_name return an error and
\* change nothing when no project matches; when one project matches they leave
\* the state that add_task or delete_project leaves when called with its index.
C6_ByName ==
    [][(call'.op \in {"add_task_by_project_name", "delete_project_by_name"})
        => LET indices == Matching(agent.state.projects, QueryArg(call'))
           IN  /\ indices = {}
                    => /\ StatusOf(ret') = "error"
                       /\ agent'.state = agent.state
                       /\ store' = store
               /\ (Cardinality(indices) = 1 /\ call'.op = "add_task_by_project_name")
                    => agent'.state = add_task(agent.state, TheOne(indices), call'.args.task_name,
                                               None, None, None, None).state
               /\ (Cardinality(indices) = 1 /\ call'.op = "delete_project_by_name")
                    => agent'.state = delete_project(agent.state, TheOne(indices)).state]_vars

\* the second of two projects was deleted by its name
C6_Witness ==
    /\ call.op = "delete_project_by_name"
    /\ call.args.name = Q_launch
    /\ Succeeded(ret)
    /\ Len(agent.state.projects) = 1
    /\ agent.state.projects[1].name = WebsiteRedesign

\* the rows of the identity main_async runs under
OwnSessions(rows) == SessionsOf(rows, APP_NAME, USER_ID)

\* C7: the first get_or_create_session of an identity creates one record with
\* the initial state and reports is_new = TRUE; every later one reports
\* is_new = FALSE, the same session id and the state the last run left, which
\* is the state its last completed mutating command wrote.
C7_SessionResume ==
    [][(call'.op = "get_or_create_session")
        => /\ OwnSessions(store) = {}
                => /\ ret'.is_new
                   /\ ret'.state = InitialState
                   /\ Cardinality(OwnSessions(store')) = 1
                   /\ StoredState(store', ret'.id) = InitialState
           /\ OwnSessions(store) # {}
                => /\ ~ret'.is_new
                   /\ ret'.id = agent.session_id
                   /\ ret'.state = agent.state
                   /\ ret'.state = StoredState(store, agent.session_id)
                   /\ store' = store]_vars

\* a second run got back the projects and the user name the first run left
C7_Witness ==
    /\ call.op = "get_or_create_session"
    /\ ~ret.is_new
    /\ ret.state.projects # <<>>
    /\ ret.state.user_name = Ali
    /\ agent.state = ret.state

\* C8: a reachable state written with update_session_state and then loaded with
\* get_or_create_session comes back deeply equal to the state that was written.
C8_RoundTrip ==
    store # <<>>
        => \A o \in get_or_create_session(
                        update_session_state(store, agent.session_id, agent.state, clock),
                        APP_NAME, USER_ID, InitialState, clock) :
                /\ ~o.info.is_new
                /\ o.info.state = agent.state

\* a state with a renamed user, a project, a task and a team member is stored
C8_Witness ==
    /\ agent.live
    /\ agent.state.user_name = Ali
    /\ TaskCount(agent.state) = 1
    /\ Len(agent.state.team_members) = 1
    /\ Loads(Dumps(agent.state)) = agent.state
    /\ StoredState(store, agent.session_id) = agent.state

\* C9: add_project with a due_date that does not parse as YYYY-MM-DD, the empty
\* string among them, returns an error result and leaves the projects and the
\* sessions table as they were.
C9_InvalidDueDate ==
    [][(/\ call'.op = "add_project"
        /\ call'.args.due_date # None
        /\ ~StrptimeYmd(call'.args.due_date))
        => /\ StatusOf(ret') = "error"
           /\ agent'.state.projects = agent.state.projects
           /\ store' = store]_vars

\* C10: a successful add_project appends one project with the given name and
\* no tasks at the end of the list; the projects there were, the team members
\* and user_name stay as they are.
C10_AppendsProject ==
    [][(call'.op = "add_project" /\ Succeeded(ret'))
        => /\ Others(agent'.state) = Others(agent.state)
           /\ Len(agent'.state.projects) = Len(agent.state.projects) + 1
           /\ \A k \in 1..Len(agent.state.projects) : agent'.state.projects[k] = agent.state.projects[k]
           /\ agent'.state.projects[Len(agent.state.projects) + 1].name = call'.args.name
           /\ agent'.state.projects[Len(agent.state.projects) + 1].tasks = <<>>]_vars

\* a second project was added behind a project that has a task
C10_Witness ==
    /\ call.op = "add_project"
    /\ Succeeded(ret)
    /\ Len(agent.state.projects) = 2
    /\ agent.state.projects[1].name = WebsiteRedesign
    /\ Len(agent.state.projects[1].tasks) = 1
    /\ agent.state.projects[2].name = WebsiteLaunch
    /\ agent.state.projects[2].tasks = <<>>

\* new is old without its i-th element: the elements before i keep their index,
\* the elements after i move down by one, and their contents are unchanged
RemovesAt(old, new, i) ==
    /\ Len(new) = Len(old) - 1
    /\ \A k \in 1..(i - 1) : new[k] = old[k]
    /\ \A k \in (i + 1)..Len(old) : new[k - 1] = old[k]

\* C11: delete_team_member(i) and delete_project(i) with a valid index remove
\* exactly the i-th element of their collection: it is shorter by one, the
\* elements before i stay where they were, the elements after i move down by
\* one with their contents unchanged, and the rest of the state is as it was.
C11_DeleteShifts ==
    [][(call'.op \in {"delete_team_member", "delete_project"} /\ ~OutOfRange(call', agent.state))
        => /\ RemovesAt(Addressed(call', agent.state), Addressed(call', agent'.state), call'.args.index)
           /\ agent'.state.user_name = agent.state.user_name
           /\ call'.op = "delete_project" => agent'.state.team_members = agent.state.team_members
           /\ call'.op = "delete_team_member" => agent'.state.projects = agent.state.projects]_vars

\* the first of two projects was deleted and the other one is now the first
C11_Witness ==
    /\ call.op = "delete_project"
    /\ call.args.index = 1
    /\ Succeeded(ret)
    /\ Len(agent.state.projects) = 1
    /\ agent.state.projects[1].name = WebsiteLaunch
    /\ ret.project = WebsiteRedesign

\* the fields update_team_member may overwrite
MemberFields == {"name", "role", "email"}

\* C12: update_team_member with a valid index i overwrites on the i-th member
\* exactly the fields that were given (not None) and leaves its other fields,
\* the other members, their number and order, the projects and user_name as
\* they were; when no field is given the state stays as it was.
C12_PartialUpdate ==
    [][(call'.op = "update_team_member" /\ ~OutOfRange(call', agent.state))
        => LET i == call'.args.index
               old == agent.state.team_members[i]
               new == agent'.state.team_members[i]
           IN  /\ UpdatesMember(agent.state, agent'.state, i)
               /\ DOMAIN new = DOMAIN old
               /\ \A f \in MemberFields :
                    new[f] = IF call'.args[f] # None THEN call'.args[f] ELSE old[f]
               /\ \A f \in DOMAIN old \ MemberFields : new[f] = old[f]
               /\ (\A f \in MemberFields : call'.args[f] = None) => agent'.state = agent.state]_vars

\* the second member was given a new name and role and kept the email it had
C12_Witness ==
    /\ call.op = "update_team_member"
    /\ call.args.index = 2
    /\ call.args.name = JimHalpert
    /\ call.args.email = None
    /\ Succeeded(ret)
    /\ Len(agent.state.team_members) = 2
    /\ agent.state.team_members[1].name = PamBeesly
    /\ agent.state.team_members[2].name = JimHalpert
    /\ agent.state.team_members[2].role = SalesRole
    /\ agent.state.team_members[2].email = GivenEmail

\* the least element of a non-empty set of positions
Least(indices) == CHOOSE i \in indices : \A j \in indices : i <= j

\* new is old with the status of task t of project p set to status, and nothing else changed
SetsStatus(old, new, p, t, status) ==
    /\ Others(new) = Others(old)
    /\ Len(new.projects) = Len(old.projects)
    /\ \A k \in 1..Len(old.projects) : k # p => new.projects[k] = old.projects[k]
    /\ ButTasks(new.projects[p]) = ButTasks(old.projects[p])
    /\ Len(new.projects[p].tasks) = Len(old.projects[p].tasks)
    /\ \A k \in 1..Len(old.projects[p].tasks) : k # t => new.projects[p].tasks[k] = old.projects[p].tasks[k]
    /\ new.projects[p].tasks[t] = [old.projects[p].tasks[t] EXCEPT !.status = status]

\* C13: update_task_status takes the first project, in list order, whose name
\* contains project_name and in that project only the first task whose name
\* contains task_name (both case-insensitively). When no project matches, or
\* that first project has no matching task, it returns an error and changes
\* nothing, whatever later projects hold; otherwise it sets the status of that
\* one task to the lower-cased new_status, changes nothing else and reports the
\* status the task had as old_status.
C13_FirstMatchStatus ==
    [][(call'.op = "update_task_status")
        => LET projects == agent.state.projects
               ps == Matching(projects, call'.args.project_name)
               p == Least(ps)
               ts == Matching(projects[p].tasks, call'.args.task_name)
               t == Least(ts)
           IN  IF ps = {} \/ ts = {}
               THEN /\ StatusOf(ret') = "error"
                    /\ agent'.state = agent.state
                    /\ store' = store
               ELSE /\ StatusOf(ret') = "success"
                    /\ SetsStatus(agent.state, agent'.state, p, t, Lower(call'.args.new_status))
                    /\ ret'.old_status = projects[p].tasks[t].status]_vars

\* the second task of a project was set from pending to the lower-cased "Completed"
C13_Witness ==
    /\ call.op = "update_task_status"
    /\ call.args.new_status = CapCompleted
    /\ StatusOf(ret) = "success"
    /\ ret.old_status = Pending
    /\ Len(agent.state.projects) = 1
    /\ Len(agent.state.projects[1].tasks) = 2
    /\ agent.state.projects[1].tasks[1].status = Pending
    /\ agent.state.projects[1].tasks[2].name = WriteSpec
    /\ agent.state.projects[1].tasks[2].status = Completed

\* new is old with the tasks of every project i replaced by left[i]; nothing else differs
LeavesTasks(old, new, left) ==
    /\ Others(new) = Others(old)
    /\ Len(new.projects) = Len(old.projects)
    /\ \A i \in 1..Len(old.projects) :
        /\ ButTasks(new.projects[i]) = ButTasks(old.projects[i])
        /\ new.projects[i].tasks = left[i]

\* the tasks of every project whose name does not contain s, in their order
NotNamed(projects, s) ==
    [i \in 1..Len(projects) |-> SelectSeq(projects[i].tasks, LAMBDA task : ~NameMatches(s, task.name))]

\* the positions of the projects that hold a task whose name contains s
Holding(projects, s) == {i \in 1..Len(projects) : Matching(projects[i].tasks, s) # {}}

\* names lists the names of the projects at the positions, in ascending order of position
NamesInOrder(names, projects, positions) ==
    /\ Len(names) = Cardinality(positions)
    /\ \A h \in positions : names[Cardinality({j \in positions : j < h}) + 1] = projects[h].name

\* the example: "Design homepage" and "Design logo" in the first of two
\* projects, no task of that name in the second
DesignExample ==
    LET one == add_project(InitialState, WebsiteRedesign, None, None).state
        two == add_project(one, MobileApp, None, None).state
        three == add_task(two, 1, DesignHomepage, None, None, None, None).state
        four == add_task(three, 1, DesignLogo, None, None, None, None).state
    IN  add_task(four, 2, WriteSpec, None, None, None, None).state

DesignExampleHolds ==
    LET o == delete_tasks_by_name(DesignExample, Q_design)
    IN  /\ StatusOf(o.result) = "success"
        /\ o.result.deleted_count = 2
        /\ o.result.affected_projects = <<WebsiteRedesign>>
        /\ o.state.projects[1].tasks = <<>>
        /\ o.state.projects[2] = DesignExample.projects[2]

DeletesNothing(c, st) ==
    c.op = "delete_tasks_by_name" /\ Holding(st.projects, c.args.task_name) = {}

\* C15 as stated: every run of delete_tasks_by_name that deletes no task, also
\* one in a state without projects, returns status "not_found" and leaves the
\* state as it was.
C15_ZeroDeletionsNotFound ==
    [][DeletesNothing(call', agent.state)
        => /\ StatusOf(ret') = "not_found"
           /\ agent'.state = agent.state]_vars

\* C15 amended: a run of delete_tasks_by_name that deletes no task leaves the
\* state in memory and the state in the table as they were and never returns
\* "success": it returns "not_found" when there is a project and "error" when
\* there is none.
C15_ZeroDeletions ==
    [][DeletesNothing(call', agent.state)
        => /\ StatusOf(ret') = IF agent.state.projects = <<>> THEN "error" ELSE "not_found"
           /\ agent'.state = agent.state
           /\ StoredState(store', agent.session_id) = StoredState(store, agent.session_id)]_vars

\* no task of a project that has two was named by the query
C15_Witness ==
    /\ call.op = "delete_tasks_by_name"
    /\ call.args.task_name = Q_zzz
    /\ StatusOf(ret) = "not_found"
    /\ Len(agent.state.projects) = 1
    /\ Len(agent.state.projects[1].tasks) = 2

\* the tasks of every project whose status is not the string "completed", in their order
NotCompleted(projects) ==
    [i \in 1..Len(projects) |-> SelectSeq(projects[i].tasks, LAMBDA task : task.status # Completed)]

\* the number of tasks of the state whose status is the string "completed"
CompletedTasks(st) ==
    Cardinality({<<i, k>> \in (1..MaxProjects) \X (1..MaxEntities) :
                    /\ i <= Len(st.projects)
                    /\ k <= Len(st.projects[i].tasks)
                    /\ st.projects[i].tasks[k].status = Completed})

\* C16: remove_completed_tasks takes out of every project all the tasks whose
\* status is exactly "completed" and no others, leaves the other tasks in
\* their order and, when it took out any, returns their number as
\* removed_count; after it no task of the state has the status "completed".
C16_RemoveCompleted ==
    [][(call'.op = "remove_completed_tasks")
        => /\ LeavesTasks(agent.state, agent'.state, NotCompleted(agent.state.projects))
           /\ CompletedTasks(agent.state) > 0
                => /\ StatusOf(ret') = "success"
                   /\ ret'.removed_count = CompletedTasks(agent.state)
           /\ CompletedTasks(agent'.state) = 0]_vars

\* the completed task was removed and the task with the status "not completed" stayed
C16_Witness ==
    /\ call.op = "remove_completed_tasks"
    /\ StatusOf(ret) = "success"
    /\ ret.removed_count = 1
    /\ Len(agent.state.projects) = 1
    /\ Len(agent.state.projects[1].tasks) = 1
    /\ agent.state.projects[1].tasks[1].status = Lower(NotCompletedStatus)

Empty(st) == st.projects = <<>> /\ st.team_members = <<>>
OnlyAlpha(st) ==
    /\ st.team_members = <<>>
    /\ Len(st.projects) = 1
    /\ st.projects[1].name = Alpha
AlphaEmpty(st) == OnlyAlpha(st) /\ st.projects[1].tasks = <<>>
AlphaWithSpec(st, status) ==
    /\ OnlyAlpha(st)
    /\ Len(st.projects[1].tasks) = 1
    /\ st.projects[1].tasks[1].name = WriteSpec
    /\ st.projects[1].tasks[1].status = status

\* C18: from a state without projects and members, add_project("Alpha"), then
\* add_task(1, "Write spec"), then update_task_status("Alpha", "Write spec",
\* "completed"), then remove_completed_tasks() lead, step by step, to a state
\* with the one project "Alpha" and no task, in memory and in the table, and
\* the last command returns removed_count = 1.
C18_EndToEnd ==
    [][/\ (/\ Empty(agent.state)
            /\ call'.op = "add_project"
            /\ call'.args = [name |-> Alpha, description |-> None, due_date |-> None])
                => AlphaEmpty(agent'.state)
       /\ (/\ AlphaEmpty(agent.state)
            /\ call'.op = "add_task"
            /\ call'.args.project_index = 1
            /\ call'.args.name = WriteSpec)
                => AlphaWithSpec(agent'.state, Pending)
       /\ (/\ AlphaWithSpec(agent.state, Pending)
            /\ call'.op = "update_task_status"
            /\ call'.args = [project_name |-> Alpha, task_name |-> WriteSpec, new_status |-> Completed])
                => AlphaWithSpec(agent'.state, Completed)
       /\ (/\ AlphaWithSpec(agent.state, Completed)
            /\ call'.op = "remove_completed_tasks")
                => /\ AlphaEmpty(agent'.state)
                   /\ AlphaEmpty(StoredState(store', agent.session_id))
                   /\ agent'.state.user_name = agent.state.user_name
                   /\ ret'.removed_count = 1]_vars

\* the sequence has run to its end
C18_Witness ==
    /\ call.op = "remove_completed_tasks"
    /\ StatusOf(ret) = "success"
    /\ ret.removed_count = 1
    /\ ret.affected_projects = <<Alpha>>
    /\ AlphaEmpty(agent.state)
    /\ AlphaEmpty(StoredState(store, agent.session_id))
    /\ agent.state.user_name = ProjectManagerName

\* the commands that reset collections
ClearOps == {"clear_all_projects", "clear_all_team_members", "clear_all_data"}

\* what a second call of the same clearing command computes
ClearAgain(op, st) ==
    IF op = "clear_all_projects" THEN clear_all_projects(st)
    ELSE IF op = "clear_all_team_members" THEN clear_all_team_members(st)
    ELSE clear_all_data(st)

\* C19: from any state clear_all_projects leaves no project and the team
\* members and user_name as they were, clear_all_team_members leaves no team
\* member and the projects and user_name as they were, clear_all_data leaves
\* neither and user_name as it was; none of them returns an error, and a call
\* right after a call of the same command leaves the state of the first.
C19_ClearAll ==
    [][(call'.op \in ClearOps)
        => /\ Succeeded(ret')
           /\ agent'.state.user_name = agent.state.user_name
           /\ agent'.state.projects =
                IF call'.op = "clear_all_team_members" THEN agent.state.projects ELSE <<>>
           /\ agent'.state.team_members =
                IF call'.op = "clear_all_projects" THEN agent.state.team_members ELSE <<>>
           /\ ClearAgain(call'.op, agent'.state).state = agent'.state]_vars

\* everything was cleared but the name the user gave
C19_Witness ==
    /\ call.op = "clear_all_data"
    /\ Succeeded(ret)
    /\ agent.state.projects = <<>>
    /\ agent.state.team_members = <<>>
    /\ agent.state.user_name = Ali
    /\ StoredState(store, agent.session_id) = agent.state

\* the entries every result of a command has
ResultShape == {"action", "status", "message"}

\* C20: execute_function called with a name it does not know returns a result
\* of the shape of the other results (action, status, message) with the status
\* "error", and leaves the state in memory and the sessions table as they were.
C20_UnknownFunction ==
    [][(call'.op = "execute_function" /\ call'.args.function_name \notin RegisteredFunctions)
        => /\ ResultShape \subseteq DOMAIN ret'
           /\ StatusOf(ret') = "error"
           /\ agent'.state = agent.state
           /\ store' = store]_vars

\* the entry point of this name called directly with the arguments of the dictionary
EntryPoint(st, function_name, args) ==
    IF function_name = "delete_project" THEN delete_project(st, args.index)
    ELSE IF function_name = "delete_project_by_name" THEN delete_project_by_name(st, args.name)
    ELSE IF function_name = "clear_all_projects" THEN clear_all_projects(st)
    ELSE IF function_name = "clear_all_team_members" THEN clear_all_team_members(st)
    ELSE IF function_name = "clear_all_data" THEN clear_all_data(st)
    ELSE IF function_name = "add_task_by_project_name"
    THEN add_task_by_project_name(st, args.project_name, args.task_name, Arg(args, "assigned_to"),
                                  Arg(args, "description"), Arg(args, "due_date"), Arg(args, "priority"))
    ELSE IF function_name = "add_task_smart"
    THEN add_task_smart(st, args.task_description, Arg(args, "project_hint"))
    ELSE IF function_name = "update_task_status"
    THEN update_task_status(st, args.project_name, args.task_name, args.new_status)
    ELSE IF function_name = "delete_tasks_by_name" THEN delete_tasks_by_name(st, args.task_name)
    ELSE IF function_name = "remove_completed_tasks" THEN remove_completed_tasks(st)
    ELSE execute_function(st, function_name, args)

\* C21: execute_function called with the name of any of the twenty methods
\* of get_python_functions returns what that method returns and leaves the
\* state that method leaves (as stated; delete_project is not among the
\* names execute_function tests for).
C21_AllExposedRegistered ==
    [][(call'.op = "execute_function" /\ call'.args.function_name \in ExposedFunctions)
        => /\ ret' = EntryPoint(agent.state, call'.args.function_name, call'.args.args).result
           /\ agent'.state = EntryPoint(agent.state, call'.args.function_name, call'.args.args).state]_vars

\* C22: no call of execute_function with a name it tests for ends in an
\* exception, whatever the dictionary of arguments (as stated; a dictionary
\* that does not bind to the method's parameters raises TypeError).
C22_NeverRaises ==
    [][(call'.op = "execute_function" /\ call'.args.function_name \in RegisteredFunctions)
        => "raised" \notin DOMAIN ret']_vars

\* the commands that only read
ReadOps == {"view_projects", "view_team_members", "find_project_by_name", "find_team_member_by_name"}

\* the number of tasks of this list with status "completed"
Done(tasks) == Cardinality({k \in DOMAIN tasks : tasks[k].status = Completed})

\* C23: view_projects, view_team_members, find_project_by_name and
\* find_team_member_by_name leave the state in memory and the sessions table
\* as they are and make no call of update_session_state; view_projects
\* returns the number of projects as count and, for every project, the number
\* of its tasks with status "completed", which is at most the number of its tasks.
C23_ReadOnly ==
    [][call'.op \in ReadOps
        => /\ agent'.state = agent.state
           /\ store' = store
           /\ written' = 0
           /\ call'.op = "view_projects"
                => /\ ret'.count = Len(agent.state.projects)
                   /\ ret'.projects = agent.state.projects
                   /\ \A i \in 1..Len(agent.state.projects) :
                        /\ ret'.formatted_list[i].completed_tasks = Done(agent.state.projects[i].tasks)
                        /\ ret'.formatted_list[i].task_count = Len(agent.state.projects[i].tasks)
                        /\ ret'.formatted_list[i].completed_tasks <= ret'.formatted_list[i].task_count]_vars

\* view_projects has counted one completed task of two
C23_Witness ==
    /\ call.op = "view_projects"
    /\ written = 0
    /\ \E i \in 1..Len(agent.state.projects) :
        /\ Len(agent.state.projects[i].tasks) = 2
        /\ ret.formatted_list[i].completed_tasks = 1

\* add_task_smart was given no hint and none of its patterns matches the text
NoProjectNamed(c) ==
    /\ c.op = "add_task_smart"
    /\ c.args.project_hint = None
    /\ FirstPattern(c.args.task_description) = 0

\* C24: add_task_smart called without a hint on a text in which none of the
\* patterns finds a project returns an error, adds no task and changes
\* nothing; when there are projects its message lists all of them in order.
C24_NoGuess ==
    [][NoProjectNamed(call')
        => /\ ret'.action = "add_task_smart"
           /\ ret'.status = "error"
           /\ agent'.state = agent.state
           /\ store' = store
           /\ written' = 0
           /\ agent.state.projects # <<>>
                => Enumerates(ret'.message.args[2], agent.state.projects, 1..Len(agent.state.projects))]_vars

\* add_task_smart has asked which of two projects is meant
C24_Witness ==
    /\ NoProjectNamed(call)
    /\ Len(agent.state.projects) = 2
    /\ ret.status = "error"
    /\ Len(ret.message.args[2]) = 2

\* the method a call runs: for execute_function the one it names
Operation(c) == IF c.op = "execute_function" THEN c.args.function_name ELSE c.op

\* a dictionary with an action that is the name of a method and a message,
\* and without a status only when the call has stored a state or only viewed
Shaped(c, r, updates) ==
    /\ {"action", "message"} \subseteq DOMAIN r
    /\ r.action \in ExposedFunctions
    /\ StatusOf(r) = Absent => (updates > 0 \/ Operation(c) \in {"view_projects", "view_team_members"})

\* C25: every result the agent returns, from its twenty methods and from
\* execute_function, has an action naming a method and a message, and has
\* no status only on success (as stated; the results of execute_function
\* for a name it does not know have neither action nor message nor status).
C25_ResultShape ==
    [][call'.op \in ExposedFunctions \cup {"execute_function"} => Shaped(call', ret', written')]_vars

\* what get_or_create_session may return to this identity
Loaded(rows, who) ==
    {o.info : o \in get_or_create_session(rows, who.app_name, who.user_id, InitialState, 0)}

\* C26: update_session_state puts exactly the given state into the row with
\* the given id, stamps that row with the time of the call and changes
\* nothing else of the table: every other row is as it was, and an identity
\* that does not own the row loads what it loaded before.
C26_UpdateOneRecord ==
    [][call'.op = "update_session_state"
        => /\ DOMAIN store' = DOMAIN store
           /\ \A i \in DOMAIN store :
                IF store[i].id = call'.args.session_id
                THEN /\ store'[i] = [store[i] EXCEPT !.state = store'[i].state, !.updated_at = clock']
                     /\ Loads(store'[i].state) = call'.args.state
                ELSE store'[i] = store[i]
           /\ \A who \in Identities :
                (/\ SessionsOf(store, who.app_name, who.user_id) # {}
                 /\ \A i \in SessionsOf(store, who.app_name, who.user_id) : store[i].id # call'.args.session_id)
                    => Loaded(store', who) = Loaded(store, who)]_vars

\* one of two rows has been overwritten with a state that has a project
\* while the other row holds another state
C26_Witness ==
    /\ call.op = "update_session_state"
    /\ Len(store) = 2
    /\ \E i, j \in DOMAIN store :
        /\ store[i].id = call.args.session_id
        /\ store[j].id # call.args.session_id
        /\ Loads(store[i].state).projects # <<>>
        /\ Loads(store[j].state) = update_user_name(InitialState, Ali).state

\* C27: update_user_name succeeds whatever the name, leaves user_name equal
\* to the name it was given, stores the state with one call of
\* update_session_state, and leaves projects and team members as they were.
C27_UpdateUserName ==
    [][call'.op = "update_user_name"
        => /\ ret'.action = "update_user_name"
           /\ Succeeded(ret')
           /\ agent'.state.user_name = call'.args.name
           /\ agent'.state.projects = agent.state.projects
           /\ agent'.state.team_members = agent.state.team_members
           /\ written' = 1
           /\ StoredState(store', agent'.session_id) = agent'.state]_vars

\* a session with a project and a team member has taken a name with a
\* quote and a backslash in it
C27_Witness ==
    /\ call.op = "update_user_name"
    /\ call.args.name = Ali
    /\ agent.state.user_name = Ali
    /\ agent.state.projects # <<>>
    /\ agent.state.team_members # <<>>
    /\ StoredState(store, agent.session_id).user_name = Ali

\* every project of the list has a tasks entry that is a list
TasksPresent(projects) ==
    \A i \in DOMAIN projects :
        /\ "tasks" \in DOMAIN projects[i]
        /\ DOMAIN projects[i].tasks = 1..Len(projects[i].tasks)

\* C28: in every reachable state every project, in memory and in every row
\* of the sessions table, has a tasks entry that is a list, empty or not.
C28_TasksPresent ==
    /\ TasksPresent(agent.state.projects)
    /\ \A i \in DOMAIN store : TasksPresent(Loads(store[i].state).projects)

\* remove_completed_tasks has taken the last task out of a project
C28_Witness ==
    /\ call.op = "remove_completed_tasks"
    /\ ret.status = "success"
    /\ \E i \in DOMAIN agent.state.projects : agent.state.projects[i].tasks = <<>>
    /\ StoredState(store, agent.session_id) = agent.state

\* the state the command of this step leaves in memory when it runs to its end
Completed_state(c, before, after) ==
    IF c.op = "crash" THEN clear_all_data(before).state ELSE after

\* C29: whatever a step of a running agent does, a crash inside a command
\* included, the session's row then holds either the state as it was after
\* the last completed command or the state the command of this step leaves
\* when it completes (as stated; a crash between the two writes of
\* clear_all_data leaves the projects cleared and the team members kept).
C29_LastCompletedCommand ==
    [][agent.live
        => StoredState(store', agent.session_id)
            \in {agent.state, Completed_state(call', agent.state, agent'.state)}]_vars

\* an outcome that leaves the state as it was: a status of failure, or an
\* update_team_member that was given no field
LeavesState(c, r) ==
    \/ StatusOf(r) \in {"error", "not_found", "multiple_matches", "no_tasks"}
    \/ /\ c.op = "update_team_member"
       /\ c.args.name = None /\ c.args.role = None /\ c.args.email = None

\* C30: a command whose outcome leaves the state as it was makes no call of
\* update_session_state and leaves the sessions table as it was (as stated;
\* delete_tasks_by_name, remove_completed_tasks and update_team_member store
\* the state before they know whether anything changed).
C30_WriteOnlyOnChange ==
    [][(call'.op \in ExposedFunctions /\ LeavesState(call', ret') /\ agent'.state = agent.state)
        => (written' = 0 /\ store' = store)]_vars

\* the statuses of all tasks of the state
Statuses(st) ==
    {st.projects[i].tasks[k].status :
        <<i, k>> \in {<<i, k>> \in (1..MaxProjects) \X (1..MaxEntities) :
                        i <= Len(st.projects) /\ k <= Len(st.projects[i].tasks)}}

\* update_task_status has set a status that is "completed" in some capitalisation
SetCompleted(c, r) ==
    /\ c.op = "update_task_status"
    /\ StatusOf(r) = "success"
    /\ Lower(c.args.new_status) = Completed

\* C31: after every step every task's status is a lower-case string, and a
\* task whose status was set to "completed" in any capitalisation has the
\* status "completed" and is taken out by a remove_completed_tasks run on
\* the state the step leaves.
C31_LowerCaseStatus ==
    [][/\ \A status \in Statuses(agent'.state) : status = Lower(status)
       /\ SetCompleted(call', ret')
            => /\ Completed \in Statuses(agent'.state)
               /\ CompletedTasks(agent'.state) > 0
               /\ StatusOf(remove_completed_tasks(agent'.state).result) = "success"
               /\ Completed \notin Statuses(remove_completed_tasks(agent'.state).state)]_vars

\* a task was set to "Completed" with a capital and holds "completed"
C31_Witness ==
    /\ SetCompleted(call, ret)
    /\ call.args.new_status = CapCompleted
    /\ Statuses(agent.state) = {Completed}

\* C32: the new_status a successful update_task_status returns is the status
\* the task it names then holds (as stated; the method stores
\* new_status.lower() and returns new_status as it was given).
C32_ReportedStatus ==
    [][(call'.op = "update_task_status" /\ StatusOf(ret') = "success")
        => \E i \in 1..Len(agent'.state.projects) :
            /\ agent'.state.projects[i].name = ret'.project
            /\ \E k \in 1..Len(agent'.state.projects[i].tasks) :
                /\ agent'.state.projects[i].tasks[k].name = ret'.task
                /\ agent'.state.projects[i].tasks[k].status = ret'.new_status]_vars

\* the command was given the empty string as the name to look for
EmptyQuery(c) ==
    \/ c.op \in {"find_project_by_name", "find_team_member_by_name", "delete_project_by_name"}
        /\ c.args.name = EmptyString
    \/ c.op = "delete_tasks_by_name" /\ c.args.task_name = EmptyString

\* C33: a command that looks for the empty name selects nothing: the find
\* commands return not_found and the delete commands leave the state as it
\* was (as stated; the empty string is contained in every name, so it
\* matches every item).
C33_EmptyQuerySelectsNothing ==
    [][EmptyQuery(call')
        => /\ agent'.state = agent.state
           /\ call'.op \in {"find_project_by_name", "find_team_member_by_name"}
                => StatusOf(ret') = "not_found"]_vars

\* C34: with the calls of the SessionManager made one after the other, the
\* table never holds two rows of one (app_name, user_id), and a step removes
\* no row and changes no row's id or identity.
C34_OneRecordPerIdentity ==
    [][/\ \A who \in Identities : Cardinality(SessionsOf(store', who.app_name, who.user_id)) <= 1
       /\ Len(store') >= Len(store)
       /\ \A i \in DOMAIN store :
            /\ store'[i].id = store[i].id
            /\ store'[i].app_name = store[i].app_name
            /\ store'[i].user_id = store[i].user_id]_vars

\* both identities have a row, one of them updated since, and a further
\* get_or_create_session has resumed a row in the place of adding one
C34_Witness ==
    /\ call.op = "get_or_create_session"
    /\ ~ret.is_new
    /\ Len(store) = Cardinality(Identities)
    /\ \E i \in DOMAIN store : store[i].updated_at > store[i].created_at

\* the names of the projects and of the team members of a state
Names(st) ==
    {st.projects[i].name : i \in 1..Len(st.projects)}
        \cup {st.team_members[i].name : i \in 1..Len(st.team_members)}

\* C35: with two agents made from one record and no command that removes
\* anything, the record holds every project and every team member that
\* either agent has added (as stated; each agent writes its own whole
\* state, so the later writer drops what the other has added since the
\* writer was made).
C35_NoLostUpdate ==
    \A self \in {agent, peer} :
        self.live => Names(self.state) \subseteq Names(StoredState(store, self.session_id))

\* C36: when the write to the sessions table fails during a command, the
\* state in memory is the state before the command and the state the row
\* holds (as stated; _update_state assigns self.state[key] before it calls
\* update_session_state, so the change stays in memory).
C36_FailedWriteLeavesMemory ==
    [][(call'.op = "process_message" /\ call'.args.storage = "fails")
        => /\ agent'.state = agent.state
           /\ agent'.state = StoredState(store', agent'.session_id)]_vars

\* C38: when process_message or clear_conversation_history has returned the
\* history has at most 20 messages, and clear_conversation_history leaves it
\* empty and the state and the table as they were (as stated;
\* process_message cuts the history to 20 before it appends the answer).
C38_HistoryBounded ==
    [][/\ Len(agent'.conversation_history) <= HistoryLimit
       /\ call'.op = "clear_conversation_history"
            => /\ agent'.conversation_history = <<>>
               /\ agent'.state = agent.state
               /\ store' = store]_vars

\* the commands both agents have; add_team_member only with an e-mail address given
SharedCall(c) ==
    \/ c.op \in {"add_project", "view_projects", "view_team_members", "add_task", "update_user_name"}
    \/ c.op = "add_team_member" /\ c.args.email # None

\* what the minimal agent computes for this call in this state
MinimalAgent(st, c) ==
    IF c.op = "add_project"
    THEN new_agent_add_project(st, c.args.name, c.args.description, c.args.due_date)
    ELSE IF c.op = "view_projects" THEN new_agent_view_projects(st)
    ELSE IF c.op = "add_team_member"
    THEN new_agent_add_team_member(st, c.args.name, c.args.role, c.args.email)
    ELSE IF c.op = "view_team_members" THEN new_agent_view_team_members(st)
    ELSE IF c.op = "add_task"
    THEN new_agent_add_task(st, c.args.project_index, c.args.name, c.args.assigned_to,
                            c.args.description, c.args.due_date, c.args.priority)
    ELSE new_agent_update_user_name(st, c.args.name)

\* C37: on every call of one of the six commands both agents have, the
\* minimal agent given the same state and arguments leaves the same state
\* in memory, writes the same rows and returns an error exactly when the
\* rich agent does.
C37_MinimalAgentAgrees ==
    [][SharedCall(call')
        => /\ MinimalAgent(agent.state, call').state = agent'.state
           /\ Persist(store, agent.session_id, MinimalAgent(agent.state, call').writes, clock') = store'
           /\ (StatusOf(MinimalAgent(agent.state, call').result) = "error") <=> (StatusOf(ret') = "error")]_vars

\* a team member was added with an e-mail address to a session that has a project
C37_Witness ==
    /\ call.op = "add_team_member"
    /\ call.args.email = GivenEmail
    /\ agent.state.projects # <<>>
    /\ agent.state.team_members[Len(agent.state.team_members)].email = GivenEmail
    /\ StoredState(store, agent.session_id) = agent.state

=============================================================================
